---- MODULE Spec2Model ----
(***************************************************************************)
(* MohoMCP: the file-based RPC layer between the TypeScript bridge         *)
(* (bridge/src/moho-client.ts, protocol.ts) and the Lua plugin running     *)
(* inside MOHO (moho_mcp/server.lua, protocol.lua, validator.lua,          *)
(* MohoMCP_Server.lua).                                                    *)
(*                                                                         *)
(* The shared directory is modelled file by file; every await of the       *)
(* client and every file operation of the server's poll is one step, so    *)
(* the two sides interleave exactly where the operating system lets them.  *)
(***************************************************************************)
EXTENDS Integers, Sequences, FiniteSets, TLC

\* ------------------------------------------------------------------------
\* Bounds of the model
\* ------------------------------------------------------------------------

\* number of sendRequest calls one channel instance makes
MaxCalls == 2

\* the wall clock stops advancing here (milliseconds)
MaxNow == 10002

\* number of sendRequest calls rejected for lack of a connection
MaxRejects == 1

\* length of the batches whose operations are drawn freely
MaxOps == 3

\* highest id of the request files other writers put in the directory
MaxPlaced == 2

\* number of sendRequest calls made while the server keeps running
LiveCalls == 2

\* number of requests the tool handlers send
ToolCalls == 1

\* number of MohoClient instances (bridge processes) one after the other
MaxInstances == 2

\* length of the batches sent through the channel
MaxTickOps == 2

\* ------------------------------------------------------------------------
\* Optional values: Lua nil / JavaScript undefined is the empty sequence
\* ------------------------------------------------------------------------

Nil == << >>

Some(v) == << v >>

\* ------------------------------------------------------------------------
\* config.ts
\* ------------------------------------------------------------------------

requestTimeout == 10000

\* granularity of the wall clock (milliseconds per Advance step): two steps
\* are just over requestTimeout, one step is not
ClockStep == (requestTimeout \div 2) + 1

\* ------------------------------------------------------------------------
\* protocol.lua : error codes
\* ------------------------------------------------------------------------

PARSE_ERROR == -32700

INVALID_REQUEST == -32600

METHOD_NOT_FOUND == -32601

INVALID_PARAMS == -32602

INTERNAL_ERROR == -32603

\* ------------------------------------------------------------------------
\* validator.lua
\* ------------------------------------------------------------------------

allowedMethods ==
    { "document.getInfo", "document.getLayers", "layer.getProperties",
      "layer.getChildren", "layer.getBones", "bone.getProperties",
      "animation.getKeyframes", "animation.getFrameState", "mesh.getPoints",
      "mesh.getShapes", "bone.setTransform", "bone.selectBone",
      "layer.setTransform", "layer.setVisibility", "layer.setOpacity",
      "layer.setName", "layer.selectLayer", "animation.setKeyframe",
      "animation.deleteKeyframe", "animation.setInterpolation",
      "document.setFrame", "document.screenshot", "batch.execute" }

Field(n, t) == [name |-> n, type |-> t]

\* the keys of the table paramSchemas
schemaNames ==
    { "document.getInfo", "document.getLayers", "layer.getProperties",
      "layer.getChildren", "layer.getBones", "bone.getProperties",
      "animation.getKeyframes", "animation.getFrameState", "mesh.getPoints",
      "mesh.getShapes", "bone.setTransform", "bone.selectBone",
      "layer.setTransform", "layer.setVisibility", "layer.setOpacity",
      "layer.setName", "layer.selectLayer", "animation.setKeyframe",
      "animation.deleteKeyframe", "animation.setInterpolation",
      "document.setFrame", "document.screenshot", "batch.execute" }

\* method name -> ordered list of required {name, type}
paramSchemas ==
    [ m \in schemaNames |->
        CASE m \in {"document.getInfo", "document.getLayers", "document.screenshot"}
                -> << >>
          [] m \in {"layer.getProperties", "layer.getChildren", "layer.getBones",
                    "mesh.getPoints", "mesh.getShapes", "layer.selectLayer"}
                -> << Field("layerId", "number") >>
          [] m \in {"bone.getProperties", "bone.selectBone"}
                -> << Field("layerId", "number"), Field("boneId", "number") >>
          [] m = "animation.getKeyframes"
                -> << Field("layerId", "number"), Field("channel", "string") >>
          [] m \in {"animation.getFrameState", "layer.setTransform"}
                -> << Field("layerId", "number"), Field("frame", "number") >>
          [] m = "bone.setTransform"
                -> << Field("layerId", "number"), Field("boneId", "number"),
                      Field("frame", "number") >>
          [] m = "layer.setVisibility"
                -> << Field("layerId", "number"), Field("visible", "boolean") >>
          [] m = "layer.setOpacity"
                -> << Field("layerId", "number"), Field("frame", "number"),
                      Field("opacity", "number") >>
          [] m = "layer.setName"
                -> << Field("layerId", "number"), Field("name", "string") >>
          [] m \in {"animation.setKeyframe", "animation.deleteKeyframe"}
                -> << Field("layerId", "number"), Field("channel", "string"),
                      Field("frame", "number") >>
          [] m = "animation.setInterpolation"
                -> << Field("layerId", "number"), Field("channel", "string"),
                      Field("frame", "number"), Field("mode", "string") >>
          [] m = "document.setFrame"
                -> << Field("frame", "number") >>
          [] m = "batch.execute"
                -> << Field("operations", "table") >> ]

\* A Lua value used as a table key: its type() and its text.  Two keys are
\* the same key only when both agree.
LuaValue(type, text) == [type |-> type, text |-> text]

LuaString(s) == LuaValue("string", s)

\* names that differ from an allowed name by letter case or by added
\* whitespace, with the allowed name each resembles
NameVariants ==
    [ v \in { "document.getinfo", "Document.getInfo", "DOCUMENT.GETINFO",
              " document.getInfo", "document.getInfo ", "document. getInfo",
              "batch.Execute", "mesh.getPoints\n" } |->
        CASE v \in { "document.getinfo", "Document.getInfo", "DOCUMENT.GETINFO",
                     " document.getInfo", "document.getInfo ", "document. getInfo" }
                -> "document.getInfo"
          [] v = "batch.Execute" -> "batch.execute"
          [] v = "mesh.getPoints\n" -> "mesh.getPoints" ]

\* a lookup that folds case and strips whitespace first
isAllowedFolded(method) ==
    /\ method.type = "string"
    /\ (IF method.text \in DOMAIN NameVariants
        THEN NameVariants[method.text] ELSE method.text) \in allowedMethods

\* lines 130-132: allowedMethods[method] == true, a lookup by key
isAllowed(method) == method \in { LuaString(m) : m \in allowedMethods }

\* A Lua value as the validator sees it: its type() and, for a table, the
\* type() of each field.
LuaTable(f) == [type |-> "table", fields |-> f]

LuaScalar(t) == [type |-> t, fields |-> << >>]

\* The loop of validateParams: the first violation in schema order is
\* reported; for each field presence is tested before type.
RECURSIVE validateFields(_, _, _)
validateFields(schema, params, i) ==
    IF i > Len(schema) THEN [ok |-> TRUE, err |-> Nil]
    ELSE IF schema[i].name \notin DOMAIN params.fields
         THEN [ok |-> FALSE, err |-> Some(<<"Missing required parameter", schema[i].name>>)]
    ELSE IF params.fields[schema[i].name] # schema[i].type
         THEN [ok |-> FALSE, err |-> Some(<<"Invalid parameter type", schema[i].name>>)]
    ELSE validateFields(schema, params, i + 1)

\* a validation that wants a table of parameters whatever the schema
validateParamsTableFirst(method, params) ==
    IF method \notin DOMAIN paramSchemas
    THEN [ok |-> FALSE, err |-> Some(<<"Unknown method", method>>)]
    ELSE IF params.type # "table"
         THEN [ok |-> FALSE, err |-> Some(<<"Missing params", "expected a table of parameters">>)]
    ELSE validateFields(paramSchemas[method], params, 1)

\* lines 139-168
validateParams(method, params) ==
    IF method \notin DOMAIN paramSchemas
    THEN [ok |-> FALSE, err |-> Some(<<"Unknown method", method>>)]
    ELSE IF Len(paramSchemas[method]) = 0
         THEN [ok |-> TRUE, err |-> Nil]
    ELSE IF params.type # "table"
         THEN [ok |-> FALSE, err |-> Some(<<"Missing params", "expected a table of parameters">>)]
    ELSE validateFields(paramSchemas[method], params, 1)

\* ------------------------------------------------------------------------
\* config.ts : defaultIpcDir  /  server.lua : getIpcDir
\* ------------------------------------------------------------------------

\* os.tmpdir() of Node: the first of the variables it consults that is set,
\* else the platform's default
osTmpdir(env) ==
    IF env.platform = "win32"
    THEN (IF env.TEMP # Nil THEN env.TEMP[1]
          ELSE IF env.TMP # Nil THEN env.TMP[1]
          ELSE "C:\\Windows\\temp")
    ELSE (IF env.TMPDIR # Nil THEN env.TMPDIR[1]
          ELSE IF env.TMP # Nil THEN env.TMP[1]
          ELSE IF env.TEMP # Nil THEN env.TEMP[1]
          ELSE "/tmp")

\* config.ts lines 4-5: process.env.MOHO_MCP_IPC_DIR || path.join(os.tmpdir(),
\* "moho-mcp"); an empty string counts as unset
defaultIpcDir(env) ==
    IF env.MOHO_MCP_IPC_DIR # Nil /\ env.MOHO_MCP_IPC_DIR[1] # << >>
    THEN env.MOHO_MCP_IPC_DIR[1]
    ELSE << osTmpdir(env), "moho-mcp" >>

\* server.lua lines 46-49: TEMP, TMP, TMPDIR in this order, else "/tmp"
getIpcDir(env) ==
    LET tmp == IF env.TEMP # Nil THEN env.TEMP[1]
               ELSE IF env.TMP # Nil THEN env.TMP[1]
               ELSE IF env.TMPDIR # Nil THEN env.TMPDIR[1]
               ELSE "/tmp"
    IN  << tmp, "moho-mcp" >>

\* ------------------------------------------------------------------------
\* JSON: what JSON.stringify (bridge) and json.lua (plugin) do to values
\* ------------------------------------------------------------------------

\* JavaScript parameter values are modelled by their kind.
JsKinds == {"number", "string", "boolean", "null", "object", "undefined"}

\* JSON.stringify leaves out the properties whose value is undefined.
JsonStringifyParams(params) ==
    [f \in {g \in DOMAIN params : params[g] # "undefined"} |-> params[f]]

\* json.decode: JSON null becomes the json.null sentinel, which is a table;
\* objects and arrays become tables.
LuaTypeOf(kind) ==
    CASE kind = "number" -> "number"
      [] kind = "string" -> "string"
      [] kind = "boolean" -> "boolean"
      [] kind = "null" -> "table"
      [] kind = "object" -> "table"

JsonDecodeParams(jsonParams) ==
    LuaTable([f \in DOMAIN jsonParams |-> LuaTypeOf(jsonParams[f])])

\* Values json.encode cannot encode (functions, userdata, NaN) raise.
Unencodable == {"function"}

\* json.encode of a Lua table given as field -> optional value: a field whose
\* value is nil is not in the table and so not in the output.
JsonEncode(tbl) ==
    IF "result" \in DOMAIN tbl /\ tbl.result # Nil /\ tbl.result[1] \in Unencodable
    THEN [ok |-> FALSE, text |-> << >>]
    ELSE [ok |-> TRUE,
          text |-> [k \in {j \in DOMAIN tbl : tbl[j] # Nil} |-> tbl[k][1]]]

\* ------------------------------------------------------------------------
\* protocol.lua
\* ------------------------------------------------------------------------

\* A file's content: the JSON text (body) and whether all of it has been
\* written yet.  An incomplete content is a proper prefix of the text and
\* does not decode.  forReq is a history field: the request body a response
\* was computed from.  text tells what the whole text is: a JSON object
\* (whose members are in body) or something else.  A member "method" that
\* is a JSON string is held as that string; a method of another JSON type
\* is held as a Lua value in the member "methodValue".
FileContent(body, complete, forReq) ==
    [body |-> body, complete |-> complete, forReq |-> forReq, text |-> "object", by |-> 0]

\* history: the MohoClient instance a request file was written by, and for
\* a response file the instance whose request it was computed from; 0 for
\* the files of other writers and of earlier sessions
WrittenFor(content, i) == [content EXCEPT !.by = i]

\* a complete text that is empty, is not JSON, or is a JSON number or string
TextContent(text) ==
    [body |-> << >>, complete |-> TRUE, forReq |-> 0, text |-> text, by |-> 0]

\* decoded.method
methodOf(body) ==
    IF "method" \in DOMAIN body THEN LuaString(body.method)
    ELSE IF "methodValue" \in DOMAIN body THEN body.methodValue
    ELSE LuaValue("nil", "nil")

\* a parse that does not look at the version tag
parseRequestAnyVersion(content) ==
    IF content.text = "empty"
    THEN [request |-> Nil, err |-> Some(<<"Invalid input: expected non-empty JSON string">>)]
    ELSE IF ~content.complete \/ content.text # "object"
    THEN [request |-> Nil, err |-> Some(<<"Parse error: malformed JSON">>)]
    ELSE IF "id" \notin DOMAIN content.body
    THEN [request |-> Nil, err |-> Some(<<"Invalid request: missing id field">>)]
    ELSE IF methodOf(content.body).type # "string" \/ methodOf(content.body).text = ""
    THEN [request |-> Nil, err |-> Some(<<"Invalid request: missing or invalid method field">>)]
    ELSE [request |-> Some([id |-> content.body.id,
                            method |-> content.body.method,
                            params |-> IF "params" \in DOMAIN content.body
                                       THEN Some(JsonDecodeParams(content.body.params))
                                       ELSE Nil]),
          err |-> Nil]

\* protocol.lua lines 19-43.  Error messages are tuples of strings: a fixed
\* text and what is concatenated to it.
parseRequest(content) ==
    IF content.text = "empty"
    THEN [request |-> Nil, err |-> Some(<<"Invalid input: expected non-empty JSON string">>)]
    ELSE IF ~content.complete \/ content.text # "object"
    THEN [request |-> Nil, err |-> Some(<<"Parse error: malformed JSON">>)]
    ELSE IF "jsonrpc" \notin DOMAIN content.body \/ content.body.jsonrpc # "2.0"
    THEN [request |-> Nil, err |-> Some(<<"Invalid request: missing or incorrect jsonrpc version">>)]
    ELSE IF "id" \notin DOMAIN content.body
    THEN [request |-> Nil, err |-> Some(<<"Invalid request: missing id field">>)]
    ELSE IF methodOf(content.body).type # "string" \/ methodOf(content.body).text = ""
    THEN [request |-> Nil, err |-> Some(<<"Invalid request: missing or invalid method field">>)]
    ELSE [request |-> Some([id |-> content.body.id,
                            method |-> content.body.method,
                            params |-> IF "params" \in DOMAIN content.body
                                       THEN Some(JsonDecodeParams(content.body.params))
                                       ELSE Nil]),
          err |-> Nil]

createResponse(id, result) ==
    JsonEncode([jsonrpc |-> Some("2.0"), id |-> id, result |-> result])

\* an error response that never echoes the id
createErrorAnonymous(id, code, message, data) ==
    JsonEncode([jsonrpc |-> Some("2.0"), id |-> Nil,
                error |-> Some([code |-> code, message |-> message])])

createError(id, code, message, data) ==
    JsonEncode([jsonrpc |-> Some("2.0"), id |-> id,
                error |-> Some(IF data # Nil
                               THEN [code |-> code, message |-> message, data |-> data[1]]
                               ELSE [code |-> code, message |-> message])])

\* ------------------------------------------------------------------------
\* Domain handlers: opaque functions (moho, params) -> result, err
\* ------------------------------------------------------------------------

HandlerOutcomes == {"value", "nil_msg", "nil_nil", "raise", "unencodable"}

\* What pcall(handler, moho, params) returns for each behaviour of a handler:
\* ok, then the handler's two return values (or the raised message).
pcallHandler(outcome) ==
    CASE outcome = "value" ->
            [ok |-> TRUE, result |-> Some("value"), handlerErr |-> Nil]
      [] outcome = "nil_msg" ->
            [ok |-> TRUE, result |-> Nil, handlerErr |-> Some(<<"handler message">>)]
      [] outcome = "nil_nil" ->
            [ok |-> TRUE, result |-> Nil, handlerErr |-> Nil]
      [] outcome = "raise" ->
            [ok |-> FALSE, result |-> Some("raised message"), handlerErr |-> Nil]
      [] outcome = "unencodable" ->
            [ok |-> TRUE, result |-> Some("function"), handlerErr |-> Nil]

\* ------------------------------------------------------------------------
\* server.lua : processRequest
\* ------------------------------------------------------------------------

\* What one run of processRequest did: procOk is pcall's verdict on it (FALSE
\* when json.encode raised inside it), response the string it returned,
\* invoked whether the handler was called.
Returned(enc, inv) == [procOk |-> enc.ok, response |-> enc.text, invoked |-> inv]

\* the checks with validation put before the allow-list
dispatchChecksValidateFirst(method, params, registry) ==
    LET v == validateParams(method, params) IN
    IF ~v.ok
    THEN Some([code |-> INVALID_PARAMS, message |-> v.err[1]])
    ELSE IF ~isAllowed(LuaString(method))
    THEN Some([code |-> METHOD_NOT_FOUND, message |-> <<"Method not found", method>>])
    ELSE IF method \notin registry
    THEN Some([code |-> METHOD_NOT_FOUND, message |-> <<"No handler registered for", method>>])
    ELSE Nil

\* lines 261-279: the checks before the handler runs, in their order; Nil
\* when all pass, else the error's code and message
dispatchChecks(method, params, registry) ==
    LET v == validateParams(method, params) IN
    IF ~isAllowed(LuaString(method))
    THEN Some([code |-> METHOD_NOT_FOUND, message |-> <<"Method not found", method>>])
    ELSE IF ~v.ok
    THEN Some([code |-> INVALID_PARAMS, message |-> v.err[1]])
    ELSE IF method \notin registry
    THEN Some([code |-> METHOD_NOT_FOUND, message |-> <<"No handler registered for", method>>])
    ELSE Nil

\* a dispatch that does not look at pcall's verdict
handlerResponseUnchecked(id, h) ==
    IF h.result = Nil /\ h.handlerErr # Nil
    THEN createError(id, INTERNAL_ERROR, h.handlerErr[1], Nil)
    ELSE createResponse(id, h.result)

\* lines 282-293: the response for what pcall(handler, moho, params) returned
handlerResponse(id, h) ==
    IF ~h.ok
    THEN createError(id, INTERNAL_ERROR, <<"Handler error", h.result[1]>>, Nil)
    ELSE IF h.result = Nil /\ h.handlerErr # Nil
    THEN createError(id, INTERNAL_ERROR, h.handlerErr[1], Nil)
    ELSE createResponse(id, h.result)

\* lines 261-293: processRequest from the allow-list check on, for a parsed
\* request
dispatchRequest(id, method, params, registry, outcome) ==
    LET failed == dispatchChecks(method, params, registry)
    IN  IF failed # Nil
        THEN Returned(createError(id, failed[1].code, failed[1].message, Nil), FALSE)
        ELSE Returned(handlerResponse(id, pcallHandler(outcome)), TRUE)

processRequest(content, registry, outcome) ==
    LET p == parseRequest(content) IN
    IF p.request = Nil
    THEN Returned(createError(Nil, PARSE_ERROR, p.err[1], Nil), FALSE)
    ELSE
    LET request == p.request[1]
        method == request.method
        params == IF request.params # Nil THEN request.params[1] ELSE LuaTable(<< >>)
        id == Some(request.id)
    IN  dispatchRequest(id, method, params, registry, outcome)

\* server.poll lines 320-326: the response poll writes for a request
pollResponse(r) ==
    IF ~r.procOk
    THEN createError(Nil, INTERNAL_ERROR, <<"Server crash">>, Nil).text
    ELSE r.response

\* ------------------------------------------------------------------------
\* server.lua : findFilesByPrefix
\* ------------------------------------------------------------------------

ProbeLimit == 10000

MissLimit == 100

\* The ids found by probing 1, 2, 3, ... up to ProbeLimit among the ids
\* present, in ascending order; the probe gives up after more than MissLimit
\* consecutive misses.  The loop is followed from one hit to the next: the
\* ids between the last hit (or 0) and the next present id are all misses.
RECURSIVE probe(_, _, _)
probe(rest, last, files) ==
    IF rest = {} THEN files
    ELSE LET id == CHOOSE i \in rest : \A j \in rest : i <= j
         IN  IF id > ProbeLimit \/ (id - last - 1) > MissLimit
             THEN files
             ELSE probe(rest \ {id}, id, Append(files, id))

findFilesByPrefix(present) == probe(present, 0, << >>)

\* ------------------------------------------------------------------------
\* protocol.ts : parseResponse
\* ------------------------------------------------------------------------

parseResponse(content) ==
    IF ~content.complete \/ content.text # "object"
    THEN [ok |-> FALSE, obj |-> << >>]
    ELSE IF "jsonrpc" \notin DOMAIN content.body \/ content.body.jsonrpc # "2.0"
    THEN [ok |-> FALSE, obj |-> << >>]
    ELSE [ok |-> TRUE, obj |-> content.body]

\* ------------------------------------------------------------------------
\* MohoMCP_Server.lua : loadModules
\* ------------------------------------------------------------------------

toolModules ==
    << [name |-> "moho_mcp.tools.document",
        methods |-> {"document.getInfo", "document.getLayers", "document.setFrame",
                     "document.screenshot"}],
       [name |-> "moho_mcp.tools.layer",
        methods |-> {"layer.getProperties", "layer.getChildren", "layer.getBones",
                     "layer.setTransform", "layer.setVisibility", "layer.setOpacity",
                     "layer.setName", "layer.selectLayer"}],
       [name |-> "moho_mcp.tools.bone",
        methods |-> {"bone.getProperties", "bone.setTransform", "bone.selectBone"}],
       [name |-> "moho_mcp.tools.animation",
        methods |-> {"animation.getKeyframes", "animation.getFrameState",
                     "animation.setKeyframe", "animation.deleteKeyframe",
                     "animation.setInterpolation"}],
       [name |-> "moho_mcp.tools.mesh",
        methods |-> {"mesh.getPoints", "mesh.getShapes"}],
       [name |-> "moho_mcp.tools.batch",
        methods |-> {"batch.execute"}] >>

\* The tool modules whose require can fail in the runs explored (a failed
\* require only prints a warning and leaves the module's methods without a
\* handler).
LoadFailures == { {}, {"moho_mcp.tools.mesh"} }

\* a loader whose list of tool modules lacks the last one
loadModulesButLast(failed) ==
    UNION { toolModules[i].methods :
              i \in {j \in 1..(Len(toolModules) - 1) : toolModules[j].name \notin failed} }

\* The registry loadModules builds when the modules in failed do not load.
loadModules(failed) ==
    UNION { toolModules[i].methods :
              i \in {j \in 1..Len(toolModules) : toolModules[j].name \notin failed} }

\* ------------------------------------------------------------------------
\* Inputs
\* ------------------------------------------------------------------------

\* (method, params) pairs the callers of the channel pass to sendRequest
RequestInputs ==
    { [method |-> "document.getInfo", params |-> [layerId |-> "undefined"]],
      [method |-> "mesh.getPoints", params |-> [layerId |-> "number"]],
      [method |-> "mesh.getPoints", params |-> [layerId |-> "undefined"]],
      [method |-> "document.GetInfo", params |-> [layerId |-> "undefined"]],
      [method |-> "", params |-> [layerId |-> "undefined"]] }

\* the options.timeout argument: absent, or a number of milliseconds
TimeoutOptions == { Nil, Some(0) }

\* What the callers, the handlers and the module loader do in the runs of
\* Spec, which explores the interleavings of up to MaxCalls concurrent calls ...
ChannelInputs == { [method |-> "document.getInfo", params |-> [layerId |-> "undefined"]] }

ChannelOptions == { Some(0) }

ChannelOutcomes == { "value", "raise" }

ChannelFailures == { {} }

\* ... in the runs of SpecDispatch, which explores every kind of request,
\* handler behaviour and registry with up to DispatchCalls calls ...
DispatchCalls == 1

DispatchOptions == { Nil }

\* ... and in the runs of SpecTimeout, which explores both ways of giving the
\* timeout with up to DispatchCalls calls.
TimeoutOutcomes == { "value" }

\* ... and in the runs of SpecLifecycle, which explores connect, start and
\* stop called in any order on a directory that an earlier session has left
\* with request files, response files and a status.json that nothing removed.
NearId == MissLimit + 1

FarId == MissLimit + 2

LeftoverRequests == { {}, {1}, {FarId} }

LeftoverResponses == { {}, {NearId}, {1, FarId + 1} }

LeftoverStatus == { Nil, Some([running |-> FALSE]) }

\* ------------------------------------------------------------------------
\* Inputs of batch.execute
\* ------------------------------------------------------------------------

\* One entry of params.operations as batch.execute sees it: whether it is a
\* table, its method when that is a string, its params when given, and how
\* its handler behaves if it is called.
BatchOp(isTable, method, params, outcome) ==
    [isTable |-> isTable, method |-> method, params |-> params, outcome |-> outcome]

OpKinds ==
    { BatchOp(TRUE, Some("document.getInfo"), Nil, "value"),
      BatchOp(TRUE, Some("document.getInfo"), Nil, "raise"),
      BatchOp(TRUE, Some("document.getInfo"), Nil, "nil_msg"),
      BatchOp(TRUE, Some("document.getInfo"), Nil, "nil_nil"),
      BatchOp(TRUE, Some("document.getInfo"), Nil, "unencodable"),
      BatchOp(FALSE, Nil, Nil, "value"),
      BatchOp(TRUE, Nil, Nil, "value"),
      BatchOp(TRUE, Some("document.screenshot"), Nil, "value"),
      BatchOp(TRUE, Some("batch.execute"), Nil, "value"),
      BatchOp(TRUE, Some("document.GetInfo"), Nil, "value"),
      BatchOp(TRUE, Some("mesh.getPoints"), Some(LuaTable([layerId |-> "string"])), "value"),
      BatchOp(TRUE, Some("mesh.getPoints"), Some(LuaTable([layerId |-> "number"])), "value") }

\* ... and in the runs of SpecTickBatch, where batch requests and direct
\* requests wait side by side for a tick: the requests, and what a batch
\* request's operations are
TickBatchRequests ==
    { [method |-> "batch.execute", params |-> [operations |-> "object"]],
      [method |-> "document.getInfo", params |-> [layerId |-> "undefined"]] }

TickOpKinds ==
    { BatchOp(TRUE, Some("document.getInfo"), Nil, "value"),
      BatchOp(TRUE, Some("document.getInfo"), Nil, "raise") }

TickBatchInputs == UNION { [1..n -> TickOpKinds] : n \in 1..MaxTickOps }

\* params.stopOnError: absent, false or true
StopOnErrorInputs == { Nil, Some(FALSE), Some(TRUE) }

\* the values isAllowed is called with: every allowed name, the variants of
\* allowed names, other strings, and values that are not strings
MethodValues ==
    { LuaString(m) : m \in allowedMethods \cup DOMAIN NameVariants
                              \cup {"", "unknown.method", "42"} }
      \cup { LuaValue("nil", "nil"), LuaValue("number", "42"),
             LuaValue("boolean", "true"), LuaValue("table", "document.getInfo") }

\* the type() of the values a field of params may hold
LuaTypes == {"number", "string", "boolean", "table"}

\* the field names of a method's schema, and one the schema does not name
FieldNames(method) ==
    (IF method \in DOMAIN paramSchemas
     THEN { paramSchemas[method][k].name : k \in 1..Len(paramSchemas[method]) }
     ELSE {"layerId"}) \cup {"extra"}

\* the values validateParams is called with for a method: nil, scalars, and
\* every table that gives each of the field names no value or a value of
\* one of the types
ParamValues(method) ==
    { LuaScalar("nil"), LuaScalar("string"), LuaScalar("number") }
      \cup { LuaTable([k \in {j \in FieldNames(method) : f[j] # "absent"} |-> f[k]]) :
                f \in [FieldNames(method) -> LuaTypes \cup {"absent"}] }

\* a function called on its own: its name (or "input" before the call),
\* its arguments and its result
Eval(fn, args, result) == [fn |-> fn, args |-> args, result |-> result]

\* the arguments of the validator's functions
ValidatorArgs(method, params) == [method |-> method, params |-> params]

\* the directories the environment variables may name
TempDirs == {"/tmp", "/var/tmp"}

\* the environment of the two processes, and the platform they run on.  A
\* path is the sequence of its components.
Environments ==
    [ MOHO_MCP_IPC_DIR : { Nil, Some(<< >>), Some(<<"/custom">>), Some(<<"/tmp", "moho-mcp">>) },
      TEMP : {Nil} \cup { Some(d) : d \in TempDirs },
      TMP : {Nil} \cup { Some(d) : d \in TempDirs },
      TMPDIR : {Nil} \cup { Some(d) : d \in TempDirs },
      platform : {"posix", "win32"} ]

\* What a writer other than MohoClient may leave in req_<k>.json: a text
\* that is empty, is not JSON, or is JSON but no object; an object that
\* lacks one member of the envelope or has it wrong; a well-formed request.
ForeignRequests(k) ==
    { TextContent("empty"), TextContent("malformed"), TextContent("scalar"),
      FileContent([id |-> k, method |-> "document.getInfo"], TRUE, 0),
      FileContent([jsonrpc |-> "1.0", id |-> k, method |-> "document.getInfo"], TRUE, 0),
      FileContent([jsonrpc |-> "2.0", method |-> "document.getInfo"], TRUE, 0),
      FileContent([jsonrpc |-> "2.0", id |-> k], TRUE, 0),
      FileContent([jsonrpc |-> "2.0", id |-> k, method |-> ""], TRUE, 0),
      FileContent([jsonrpc |-> "2.0", id |-> k, methodValue |-> LuaValue("number", "42")],
                  TRUE, 0),
      FileContent([jsonrpc |-> "2.0", id |-> k, method |-> "document.getInfo"], TRUE, 0) }

\* the registries batch.execute may find
BatchRegistries == { loadModules(failed) : failed \in LoadFailures }

\* ------------------------------------------------------------------------
\* State
\* ------------------------------------------------------------------------

VARIABLES
    connected,     \* MohoClient.connected
    nextId,        \* MohoClient.nextId
    calls,         \* the locals of the sendRequest calls made so far, by id
    rejects,       \* history: number of sendRequest calls rejected as not connected
    allocated,     \* history: the ids allocated, in order
    now,           \* Date.now()
    statusFile,    \* status.json: Nil or Some(content)
    reqTmp,        \* req_<id>.json.tmp, id -> content
    reqFile,       \* req_<id>.json, id -> content
    respTmp,       \* resp_<id>.json.tmp, id -> content
    respFile,      \* resp_<id>.json, id -> content
    isLoaded,      \* MohoMCP_Server.isLoaded
    handlers,      \* server.lua handlers: the methods with a registered handler
    isRunning,     \* server.lua isRunning
    pollActive,    \* MohoMCP_Server.pollActive
    srv,           \* the locals of server.poll
    srvWritten,    \* history: the ids whose response file the server has put in place
    connectCall,   \* history: the last connect() observed and how it ended
    hostCall,      \* a server.start / server.stop call: its position and outcome
    batch,         \* the locals of batch.execute
    returned,      \* history: what each finished sendRequest gave its caller, by id
    tool,          \* the locals of a bridge tool handler
    eval,          \* a function called on its own: its arguments and its result
    instance,      \* history: the number of MohoClient instances created so far
    handled,       \* history: how many times a handler was called for each request id
    hooks          \* the number of polling wrappers around each tool's DrawMe

clientVars == << connected, nextId, calls, rejects, allocated >>

dirVars == << statusFile, reqTmp, reqFile, respTmp, respFile >>

serverVars == << isLoaded, handlers, isRunning, pollActive, srv >>

apiVars == << connectCall, hostCall >>

histVars == << instance, handled, hooks >>

auxVars == << returned, tool, eval, histVars >>

vars == << clientVars, now, dirVars, serverVars, srvWritten, apiVars, batch, auxVars >>

\* f with key k removed / set
Without(f, k) == [j \in DOMAIN f \ {k} |-> f[j]]

With(f, k, v) == [j \in DOMAIN f \cup {k} |-> IF j = k THEN v ELSE f[j]]

\* server.poll between two requests: pc, the reqFiles still to visit, the
\* processed count; and inside an iteration the id and content of the
\* request read, with what happened in processRequest (outcome: how the
\* handler behaved, "none" when it was not called).
PollState(pc, queue, processed) ==
    [pc |-> pc, queue |-> queue, processed |-> processed, cur |-> 0,
     content |-> Nil, outcome |-> "none", invoked |-> FALSE, procOk |-> TRUE]

IdlePoll == PollState("idle", << >>, 0)

\* the locals of a sendRequest call; a call that has returned or thrown
\* has none left
CallState(pc, option, timeout, startTime, got) ==
    [pc |-> pc, option |-> option, timeout |-> timeout, startTime |-> startTime,
     got |-> got]

\* no connect() observed yet; was: the channel was connected when it was
\* called, threw: it ended by throwing
ConnectState(made, was, threw) == [made |-> made, was |-> was, threw |-> threw]

NoConnect == ConnectState(FALSE, FALSE, FALSE)

\* a call of server.start or server.stop: which one, where it is, and
\* whether the server was running when it was called
HostCall(op, pc, was) == [op |-> op, pc |-> pc, was |-> was]

NoHostCall == HostCall("none", "returned", FALSE)

\* the locals of batch.execute: pc, the params, the registry it looks
\* handlers up in, the loop index, and in acc the locals results, succeeded,
\* failed, executed, stoppedEarly with the message of a rejected batch (err)
\* and a history field, the indices whose handler was called (invoked)
BatchState(pc, operations, stopOnError, registry, i, acc) ==
    [pc |-> pc, operations |-> operations, stopOnError |-> stopOnError,
     registry |-> registry, i |-> i, acc |-> acc, response |-> Nil]

NoResults ==
    [results |-> << >>, succeeded |-> 0, failed |-> 0, executed |-> 0,
     stoppedEarly |-> FALSE, invoked |-> {}, err |-> Nil]

IdleBatch == BatchState("idle", << >>, Nil, {}, 0, NoResults)

\* a tool handler: where it is, the id of the call it awaits, and what it
\* returned (isError with the cause of the failure)
ToolState(pc, id, isError, cause) ==
    [pc |-> pc, id |-> id, isError |-> isError, cause |-> cause]

IdleTool == ToolState("idle", 0, FALSE, "none")

\* no function is being evaluated on its own
NoEval == [fn |-> "none", args |-> Nil, result |-> Nil]

Init ==
    /\ connected = FALSE
    /\ nextId = 1
    /\ calls = << >>
    /\ rejects = 0
    /\ allocated = << >>
    /\ now = 0
    /\ statusFile = Nil
    /\ reqTmp = << >>
    /\ reqFile = << >>
    /\ respTmp = << >>
    /\ respFile = << >>
    /\ isLoaded = FALSE
    /\ handlers = {}
    /\ isRunning = FALSE
    /\ pollActive = FALSE
    /\ srv = IdlePoll
    /\ srvWritten = {}
    /\ connectCall = NoConnect
    /\ hostCall = NoHostCall
    /\ returned = << >>
    /\ instance = 1
    /\ handled = << >>
    /\ hooks = 0
    /\ tool = IdleTool
    /\ eval = NoEval
    /\ batch = IdleBatch

\* ------------------------------------------------------------------------
\* moho-client.ts : connect, disconnect
\* ------------------------------------------------------------------------

\* connect(): returns at once when connected; otherwise reads status.json
\* and throws when it is absent or running is false.
Connect ==
    /\ ~connected
    /\ statusFile # Nil
    /\ statusFile[1].running
    /\ connected' = TRUE
    /\ UNCHANGED << nextId, calls, rejects, allocated, now, dirVars, serverVars, srvWritten, apiVars, batch, auxVars >>

\* a disconnect that also resets the id counter
DisconnectReset ==
    /\ connected
    /\ connected' = FALSE
    /\ nextId' = 1
    /\ UNCHANGED << calls, rejects, allocated, now, dirVars, serverVars, srvWritten, apiVars, batch, auxVars >>

Disconnect ==
    /\ connected
    /\ connected' = FALSE
    /\ UNCHANGED << nextId, calls, rejects, allocated, now, dirVars, serverVars, srvWritten, apiVars, batch, auxVars >>

\* ------------------------------------------------------------------------
\* moho-client.ts : sendRequest
\* ------------------------------------------------------------------------

\* JSON.stringify(request) of lines 110-124
requestBody(id, method, params) ==
    [jsonrpc |-> "2.0", id |-> id, method |-> method,
     params |-> JsonStringifyParams(params)]

\* options?.timeout ?? requestTimeout
timeoutOf(option) == IF option # Nil THEN option[1] ELSE requestTimeout

\* a call that names its response file after the channel's latest id
respIdOfLatest(id) == nextId - 1

\* the id in respFileName for the call with this id
respIdOf(id) == id

\* a call that does not look at the connection
mayProceedAlways(conn) == TRUE

\* line 99: the guard that lets a call proceed
mayProceed(conn) == conn

\* a rename that does not wait for writeFile
writeNotAwaited(pc) == TRUE

\* line 124: the rename runs when the awaited writeFile has completed
writeAwaited(pc) == pc = "written"

\* a deadline test that fires one comparison early
deadlineReached(elapsed, timeout) == elapsed >= timeout

\* line 155: the deadline test
deadlinePassed(elapsed, timeout) == elapsed > timeout

\* sendRequest up to its first await: the connection check, the id, the
\* envelope, and the start of writeFile on the temporary path.
sendRequest(method, params, option, limit) ==
    IF ~mayProceed(connected)
    THEN /\ rejects < MaxRejects
         /\ rejects' = rejects + 1
         /\ UNCHANGED << connected, nextId, calls, allocated, now, dirVars, serverVars, srvWritten, apiVars, batch, returned, eval, histVars >>
    ELSE /\ nextId <= limit
         /\ nextId' = nextId + 1
         /\ allocated' = Append(allocated, nextId)
         /\ calls' = With(calls, nextId, CallState("writing", option, timeoutOf(option), 0, Nil))
         /\ reqTmp' = With(reqTmp, nextId,
                           WrittenFor(FileContent(requestBody(nextId, method, params),
                                                  FALSE, 0), instance))
         /\ UNCHANGED << connected, rejects, now, statusFile, reqFile, respTmp,
                         respFile, serverVars, srvWritten, apiVars, batch, returned, eval, histVars >>

\* sendRequest called by any caller but a tool handler
SendRequest(method, params, option, limit) ==
    /\ sendRequest(method, params, option, limit)
    /\ UNCHANGED tool

\* writeFile(tmpPath, ...) completes
ClientWriteDone(id) ==
    /\ id \in DOMAIN calls
    /\ calls[id].pc = "writing"
    /\ calls' = [calls EXCEPT ![id].pc = "written"]
    /\ reqTmp' = [reqTmp EXCEPT ![id].complete = TRUE]
    /\ UNCHANGED << connected, nextId, rejects, allocated, now, statusFile, reqFile,
                    respTmp, respFile, serverVars, srvWritten, apiVars, batch, auxVars >>

\* rename(tmpPath, reqPath); startTime = Date.now()
ClientRename(id) ==
    /\ id \in DOMAIN calls
    /\ calls[id].pc \in {"writing", "written"}
    /\ writeAwaited(calls[id].pc)
    /\ calls' = [calls EXCEPT ![id].pc = "polling", ![id].startTime = now]
    /\ reqFile' = With(reqFile, id, reqTmp[id])
    /\ reqTmp' = Without(reqTmp, id)
    /\ UNCHANGED << connected, nextId, rejects, allocated, now, statusFile,
                    respTmp, respFile, serverVars, srvWritten, apiVars, batch, auxVars >>

\* a polling loop that tests the deadline before it looks for the response
ClientPollDeadlineFirst(id) ==
    /\ id \in DOMAIN calls
    /\ calls[id].pc = "polling"
    /\ IF deadlinePassed(now - calls[id].startTime, calls[id].timeout)
       THEN calls' = [calls EXCEPT ![id] = CallState("expired", Nil, 0, 0, Nil)]
       ELSE IF respIdOf(id) \in DOMAIN respFile
            THEN calls' = [calls EXCEPT
                             ![id] = CallState("read", Nil, 0, 0, Some(respFile[respIdOf(id)]))]
            ELSE UNCHANGED calls
    /\ UNCHANGED << connected, nextId, rejects, allocated, now, dirVars, serverVars, srvWritten, apiVars, batch, auxVars >>

\* one iteration of the polling loop: readFile(respPath); on ENOENT the
\* deadline test, then the sleep
ClientPoll(id) ==
    /\ id \in DOMAIN calls
    /\ calls[id].pc = "polling"
    /\ IF respIdOf(id) \in DOMAIN respFile
       THEN calls' = [calls EXCEPT
                        ![id] = CallState("read", Nil, 0, 0, Some(respFile[respIdOf(id)]))]
       ELSE IF deadlinePassed(now - calls[id].startTime, calls[id].timeout)
            THEN calls' = [calls EXCEPT ![id] = CallState("expired", Nil, 0, 0, Nil)]
            ELSE UNCHANGED calls
    /\ UNCHANGED << connected, nextId, rejects, allocated, now, dirVars, serverVars, srvWritten, apiVars, batch, auxVars >>

\* lines 141-147: the Error thrown for an error response; its message holds
\* the code, the message and, when there is one, the data
thrownError(error) ==
    [code |-> error.code, message |-> error.message,
     data |-> IF "data" \in DOMAIN error THEN Some(error.data) ELSE Nil]

\* lines 137-150: what the call gives its caller for the content it read
callOutcome(content) ==
    LET r == parseResponse(content) IN
    IF ~r.ok THEN [kind |-> "protocol_error", value |-> Nil]
    ELSE IF "error" \in DOMAIN r.obj
         THEN [kind |-> "moho_error", value |-> Some(thrownError(r.obj.error))]
    ELSE [kind |-> "result",
          value |-> IF "result" \in DOMAIN r.obj THEN Some(r.obj.result) ELSE Nil]

\* a completion that leaves the response file behind
ClientFinishKeeps(id) ==
    /\ id \in DOMAIN calls
    /\ calls[id].pc = "read"
    /\ calls' = [calls EXCEPT ![id] = CallState("completed", Nil, 0, 0, Nil)]
    /\ returned' = With(returned, id, callOutcome(calls[id].got[1]))
    /\ UNCHANGED << connected, nextId, rejects, allocated, now, dirVars,
                    serverVars, srvWritten, apiVars, batch, tool, eval, histVars >>

\* unlink(respPath).catch(() => {}); parseResponse; throw or return
ClientFinish(id) ==
    /\ id \in DOMAIN calls
    /\ calls[id].pc = "read"
    /\ respFile' = Without(respFile, respIdOf(id))
    /\ calls' = [calls EXCEPT ![id] = CallState("completed", Nil, 0, 0, Nil)]
    /\ returned' = With(returned, id, callOutcome(calls[id].got[1]))
    /\ UNCHANGED << connected, nextId, rejects, allocated, now, statusFile, reqTmp,
                    reqFile, respTmp, serverVars, srvWritten, apiVars, batch, tool, eval, histVars >>

\* a timeout branch that throws nothing
ClientTimeoutStays(id) ==
    /\ id \in DOMAIN calls
    /\ calls[id].pc = "expired"
    /\ UNCHANGED vars

\* a timeout that leaves the request file where it is
ClientTimeoutKeeps(id) ==
    /\ id \in DOMAIN calls
    /\ calls[id].pc = "expired"
    /\ calls' = [calls EXCEPT ![id] = CallState("timedout", Nil, 0, 0, Nil)]
    /\ returned' = With(returned, id, [kind |-> "timeout", value |-> Nil])
    /\ UNCHANGED << connected, nextId, rejects, allocated, now, statusFile, reqTmp, reqFile,
                    respTmp, respFile, serverVars, srvWritten, apiVars, batch, tool, eval, histVars >>

\* unlink(reqPath).catch(() => {}); throw the timeout error
ClientTimeout(id) ==
    /\ id \in DOMAIN calls
    /\ calls[id].pc = "expired"
    /\ reqFile' = Without(reqFile, id)
    /\ calls' = [calls EXCEPT ![id] = CallState("timedout", Nil, 0, 0, Nil)]
    /\ returned' = With(returned, id, [kind |-> "timeout", value |-> Nil])
    /\ UNCHANGED << connected, nextId, rejects, allocated, now, statusFile, reqTmp,
                    respTmp, respFile, serverVars, srvWritten, apiVars, batch, tool, eval, histVars >>

\* setTimeout(resolve, pollInterval): time passes while a call sleeps
\* between two polls (told only until the deadlines of the polling calls
\* have passed)
Wait ==
    /\ \E id \in DOMAIN calls :
          /\ calls[id].pc = "polling"
          /\ ~deadlinePassed(now - calls[id].startTime, calls[id].timeout)
    /\ now' = now + ClockStep
    /\ UNCHANGED << clientVars, dirVars, serverVars, srvWritten, apiVars, batch, auxVars >>

\* time passes
Advance ==
    /\ now + ClockStep <= MaxNow
    /\ now' = now + ClockStep
    /\ UNCHANGED << clientVars, dirVars, serverVars, srvWritten, apiVars, batch, auxVars >>

\* ------------------------------------------------------------------------
\* server.lua : start, stop  /  MohoMCP_Server.lua : Run
\* ------------------------------------------------------------------------

\* the req_/resp_ files a sweep removes: those findFilesByPrefix finds
Swept(files) ==
    LET found == findFilesByPrefix(DOMAIN files)
    IN  { found[i] : i \in 1..Len(found) }

Sweep(files) == [j \in DOMAIN files \ Swept(files) |-> files[j]]

\* The menu command.  The first Run loads the modules; then a running server
\* is stopped (status.json removed, then the sweep) and a stopped one is
\* started (the sweep, then status.json) and polled once.  Run is a callback
\* of the host, so it never runs inside a poll.
\* an installation that does not look at _hooksInstalled
hooksInstalledNever(h) == FALSE

\* MohoMCP_Server._hooksInstalled: set by the first installation, which
\* puts one wrapper around each tool's DrawMe
hooksInstalled(h) == h >= 1

\* installDrawMeHooks: the number of wrappers around each tool's DrawMe
\* afterwards
installDrawMeHooks(h) == IF hooksInstalled(h) THEN h ELSE h + 1

\* Run where server.start succeeds or fails as oks says (it fails when the
\* test file cannot be written: nothing is swept, published or changed)
RunStart(failures, oks) ==
    /\ srv.pc = "idle"
    /\ isLoaded' = TRUE
    /\ \E failed \in failures :
          handlers' = IF isLoaded THEN handlers ELSE loadModules(failed)
    /\ IF isRunning
       THEN /\ reqFile' = Sweep(reqFile)
            /\ respFile' = Sweep(respFile)
            /\ statusFile' = Nil
            /\ isRunning' = FALSE
            /\ pollActive' = FALSE
            /\ srv' = IdlePoll
            /\ UNCHANGED hooks
       ELSE \E ok \in oks :
              IF ok
              THEN /\ reqFile' = Sweep(reqFile)
                   /\ respFile' = Sweep(respFile)
                   /\ statusFile' = Some([running |-> TRUE])
                   /\ isRunning' = TRUE
                   /\ pollActive' = TRUE
                   /\ hooks' = installDrawMeHooks(hooks)
                   /\ srv' = PollState("scan", << >>, 0)
              ELSE UNCHANGED << reqFile, respFile, statusFile, isRunning, pollActive,
                                hooks, srv >>
    /\ UNCHANGED << clientVars, now, reqTmp, respTmp, srvWritten, apiVars, batch,
                    returned, tool, eval, instance, handled >>

\* Run with a server.start that succeeds
Run(failures) == RunStart(failures, {TRUE})

\* ------------------------------------------------------------------------
\* server.lua : poll
\* ------------------------------------------------------------------------

\* "Process at most 2 requests per poll"
PerTickCap == 2

\* a loop without the cap
ContinueUncapped(queue, processed) ==
    IF queue = << >>
    THEN IdlePoll
    ELSE PollState("loop", queue, processed)

\* the loop test at the head of an iteration, and the end of the list
Continue(queue, processed) ==
    IF processed >= PerTickCap \/ queue = << >>
    THEN IdlePoll
    ELSE PollState("loop", queue, processed)

\* the id in the name of the response file written for req_<id>.json
respNameFor(id) == id

\* poll up to its loop: the isRunning test and findFilesByPrefix
Scan ==
    /\ isRunning
    /\ srv' = Continue(findFilesByPrefix(DOMAIN reqFile), 0)
    /\ UNCHANGED << clientVars, now, dirVars, isLoaded, handlers, isRunning,
                    pollActive, srvWritten, apiVars, batch, auxVars >>

\* the poll Run makes right after a successful start
InitialPoll ==
    /\ srv.pc = "scan"
    /\ Scan

\* a DrawMe or IsEnabled callback of the host
Tick ==
    /\ srv.pc = "idle"
    /\ pollActive
    /\ isLoaded
    /\ Scan

\* the id in the envelope of a request file, 0 when it has none
idIn(content) == IF "id" \in DOMAIN content.body THEN content.body.id ELSE 0

\* one iteration up to the start of writeFile: readFile(reqPath); when the
\* file is there, processRequest under pcall and the opening of the
\* temporary response file
PollProcess(outcomes) ==
    /\ srv.pc = "loop"
    /\ LET id == Head(srv.queue) IN
       IF id \notin DOMAIN reqFile
       THEN /\ srv' = Continue(Tail(srv.queue), srv.processed)
            /\ UNCHANGED << respTmp, handled >>
       ELSE \E outcome \in outcomes :
              LET r == processRequest(reqFile[id], handlers, outcome)
              IN  /\ srv' = [srv EXCEPT !.pc = "writing", !.cur = id,
                                        !.content = Some(reqFile[id]),
                                        !.outcome = IF r.invoked THEN outcome ELSE "none",
                                        !.invoked = r.invoked,
                                        !.procOk = r.procOk]
                  /\ respTmp' = With(respTmp, respNameFor(id),
                                     WrittenFor(FileContent(pollResponse(r), FALSE,
                                                            idIn(reqFile[id])),
                                                reqFile[id].by))
                  /\ handled' = With(handled, id,
                                     (IF id \in DOMAIN handled THEN handled[id] ELSE 0)
                                     + (IF r.invoked THEN 1 ELSE 0))
    /\ UNCHANGED << clientVars, now, statusFile, reqTmp, reqFile, respFile, isLoaded,
                    handlers, isRunning, pollActive, srvWritten, apiVars, batch, returned,
                    tool, eval, instance, hooks >>

\* writeFile: f:write(content); f:close()
PollWriteDone ==
    /\ srv.pc = "writing"
    /\ respTmp' = [respTmp EXCEPT ![respNameFor(srv.cur)].complete = TRUE]
    /\ srv' = [srv EXCEPT !.pc = "written"]
    /\ UNCHANGED << clientVars, now, statusFile, reqTmp, reqFile, respFile, isLoaded,
                    handlers, isRunning, pollActive, srvWritten, apiVars, batch, auxVars >>

\* a poll whose file-name pattern fails to give the id, so that no response
\* file is written
PollRenameSkipped ==
    /\ srv.pc = "written"
    /\ srv' = [srv EXCEPT !.pc = "remove"]
    /\ UNCHANGED << clientVars, now, dirVars, isLoaded, handlers, isRunning,
                    pollActive, srvWritten, apiVars, batch, auxVars >>

\* writeFile: os.remove(path); os.rename(tmpPath, path)
PollRename ==
    /\ srv.pc = "written"
    /\ respFile' = With(respFile, respNameFor(srv.cur), respTmp[respNameFor(srv.cur)])
    /\ respTmp' = Without(respTmp, respNameFor(srv.cur))
    /\ srvWritten' = srvWritten \cup {respNameFor(srv.cur)}
    /\ srv' = [srv EXCEPT !.pc = "remove"]
    /\ UNCHANGED << clientVars, now, statusFile, reqTmp, reqFile, isLoaded,
                    handlers, isRunning, pollActive, apiVars, batch, auxVars >>

\* an iteration that ends without removing the request file
PollKeepsReq ==
    /\ srv.pc = "remove"
    /\ srv' = Continue(Tail(srv.queue), srv.processed + 1)
    /\ UNCHANGED << clientVars, now, dirVars, isLoaded, handlers, isRunning,
                    pollActive, srvWritten, apiVars, batch, auxVars >>

\* os.remove(reqPath); processed = processed + 1; the next iteration's test
PollRemoveReq ==
    /\ srv.pc = "remove"
    /\ reqFile' = Without(reqFile, srv.cur)
    /\ srv' = Continue(Tail(srv.queue), srv.processed + 1)
    /\ UNCHANGED << clientVars, now, statusFile, reqTmp, respTmp, respFile, isLoaded,
                    handlers, isRunning, pollActive, srvWritten, apiVars, batch, auxVars >>

\* ------------------------------------------------------------------------
\* moho-client.ts : connect, every call observed
\* ------------------------------------------------------------------------

\* a connect without the early return
alreadyConnectedNever(conn) == FALSE

\* line 34: the test of the early return
alreadyConnected(conn) == conn

\* a connect that is content with any status.json
connectAnyStatus(conn, status) ==
    IF alreadyConnected(conn) THEN [connected |-> TRUE, threw |-> FALSE]
    ELSE IF status = Nil THEN [connected |-> conn, threw |-> TRUE]
    ELSE [connected |-> TRUE, threw |-> FALSE]

\* connect() lines 33-70: the early return, ENOENT, running false, success;
\* what becomes of this.connected and whether the call throws
connect(conn, status) ==
    IF alreadyConnected(conn) THEN [connected |-> TRUE, threw |-> FALSE]
    ELSE IF status = Nil THEN [connected |-> conn, threw |-> TRUE]
    ELSE IF ~status[1].running THEN [connected |-> conn, threw |-> TRUE]
    ELSE [connected |-> TRUE, threw |-> FALSE]

\* connect() called in any state of the channel and of the directory
ConnectCall ==
    /\ connected' = connect(connected, statusFile).connected
    /\ connectCall' = ConnectState(TRUE, connected, connect(connected, statusFile).threw)
    /\ UNCHANGED << nextId, calls, rejects, allocated, now, dirVars, serverVars,
                    srvWritten, hostCall, batch, auxVars >>

\* ------------------------------------------------------------------------
\* server.lua : start and stop, called in any order
\* ------------------------------------------------------------------------

\* server.start up to the end of its sweeps: nothing when already running
Start ==
    /\ srv.pc = "idle"
    /\ hostCall.pc = "returned"
    /\ IF isRunning
       THEN /\ hostCall' = HostCall("start", "returned", TRUE)
            /\ UNCHANGED << reqFile, respFile >>
       ELSE /\ hostCall' = HostCall("start", "swept", FALSE)
            /\ reqFile' = Sweep(reqFile)
            /\ respFile' = Sweep(respFile)
    /\ UNCHANGED << clientVars, now, statusFile, reqTmp, respTmp, serverVars,
                    srvWritten, connectCall, batch, auxVars >>

\* server.start lines 203-212: writeFile(status.json); isRunning = true
StartPublish ==
    /\ hostCall.op = "start"
    /\ hostCall.pc = "swept"
    /\ statusFile' = Some([running |-> TRUE])
    /\ isRunning' = TRUE
    /\ hostCall' = [hostCall EXCEPT !.pc = "returned"]
    /\ UNCHANGED << clientVars, now, reqTmp, reqFile, respTmp, respFile, isLoaded,
                    handlers, pollActive, srv, srvWritten, connectCall, batch, auxVars >>

\* a stop that leaves status.json in place
StopKeepsStatus ==
    /\ srv.pc = "idle"
    /\ hostCall.pc = "returned"
    /\ IF ~isRunning
       THEN hostCall' = HostCall("stop", "returned", FALSE)
       ELSE hostCall' = HostCall("stop", "unpublished", TRUE)
    /\ UNCHANGED << clientVars, now, dirVars, serverVars, srvWritten, connectCall, batch, auxVars >>

\* server.stop up to os.remove(status.json): nothing when not running
Stop ==
    /\ srv.pc = "idle"
    /\ hostCall.pc = "returned"
    /\ IF ~isRunning
       THEN /\ hostCall' = HostCall("stop", "returned", FALSE)
            /\ UNCHANGED statusFile
       ELSE /\ hostCall' = HostCall("stop", "unpublished", TRUE)
            /\ statusFile' = Nil
    /\ UNCHANGED << clientVars, now, reqTmp, reqFile, respTmp, respFile, serverVars,
                    srvWritten, connectCall, batch, auxVars >>

\* server.stop lines 226-236: the sweeps; isRunning = false
StopSweep ==
    /\ hostCall.op = "stop"
    /\ hostCall.pc = "unpublished"
    /\ reqFile' = Sweep(reqFile)
    /\ respFile' = Sweep(respFile)
    /\ isRunning' = FALSE
    /\ hostCall' = [hostCall EXCEPT !.pc = "returned"]
    /\ UNCHANGED << clientVars, now, statusFile, reqTmp, respTmp, isLoaded,
                    handlers, pollActive, srv, srvWritten, connectCall, batch, auxVars >>

\* ------------------------------------------------------------------------
\* tools/batch.lua : batch.execute
\* ------------------------------------------------------------------------

MAX_OPERATIONS == 50

SKIPPED == -32000

\* a denylist without the batch method
disallowedOnlyScreenshot == { "document.screenshot" }

disallowedInBatch == { "document.screenshot", "batch.execute" }

\* line 23: params.stopOnError or false
stopOnErrorOf(option) == IF option # Nil THEN option[1] ELSE FALSE

\* a limit that 50 operations already exceed
tooManyInclusive(n) == n >= MAX_OPERATIONS

\* line 30: #operations > MAX_OPERATIONS
tooMany(n) == n > MAX_OPERATIONS

\* an entry of results
Entry(i, success, result, error) ==
    [index |-> i, success |-> success, result |-> result, error |-> error]

Failure(i, code, message) ==
    Entry(i, FALSE, Nil, Some([code |-> code, message |-> message]))

\* lines 56-134: the checks an operation passes before its handler is
\* called, in their order; Nil when all pass, else the code and message.
\* (The index in the text of the first message is the entry's index field.)
opFailure(op, registry) ==
    IF ~op.isTable \/ op.method = Nil
    THEN Some([code |-> INVALID_REQUEST,
               message |-> <<"Invalid operation: must have a string 'method'">>])
    ELSE
    LET method == op.method[1]
        opParams == IF op.params # Nil THEN op.params[1] ELSE LuaTable(<< >>)
        v == validateParams(method, opParams)
    IN  IF method \in disallowedInBatch
        THEN Some([code |-> METHOD_NOT_FOUND,
                   message |-> <<"Method not allowed in batch", method>>])
        ELSE IF ~isAllowed(LuaString(method))
        THEN Some([code |-> METHOD_NOT_FOUND, message |-> <<"Method not found", method>>])
        ELSE IF ~v.ok
        THEN Some([code |-> INVALID_PARAMS, message |-> v.err[1]])
        ELSE IF method \notin registry
        THEN Some([code |-> METHOD_NOT_FOUND,
                   message |-> <<"No handler registered for", method>>])
        ELSE Nil

\* a failure that never stops the batch
failedOpNeverStops(acc, stopOnError, i, code, message) ==
    [acc EXCEPT !.results = Append(@, Failure(i, code, message)),
                !.failed = @ + 1,
                !.executed = @ + 1]

\* a failure that stops the batch whatever the flag
failedOpAlwaysStops(acc, stopOnError, i, code, message) ==
    [acc EXCEPT !.results = Append(@, Failure(i, code, message)),
                !.failed = @ + 1,
                !.executed = @ + 1,
                !.stoppedEarly = TRUE]

\* what a failed operation does to the locals
failedOp(acc, stopOnError, i, code, message) ==
    [acc EXCEPT !.results = Append(@, Failure(i, code, message)),
                !.failed = @ + 1,
                !.executed = @ + 1,
                !.stoppedEarly = IF stopOnError THEN TRUE ELSE @]

\* an iteration that never skips
executeOpNoSkip(acc, stopOnError, registry, i, op) ==
    LET bad == opFailure(op, registry)
        h == pcallHandler(op.outcome)
    IN  IF bad # Nil
        THEN failedOp(acc, stopOnError, i, bad[1].code, bad[1].message)
        ELSE IF ~h.ok
        THEN [failedOp(acc, stopOnError, i, INTERNAL_ERROR, <<"Handler error", h.result[1]>>)
                EXCEPT !.invoked = @ \cup {i}]
        ELSE IF h.result = Nil /\ h.handlerErr # Nil
        THEN [failedOp(acc, stopOnError, i, INTERNAL_ERROR, h.handlerErr[1])
                EXCEPT !.invoked = @ \cup {i}]
        ELSE [acc EXCEPT !.results = Append(@, Entry(i, TRUE, h.result, Nil)),
                         !.succeeded = @ + 1,
                         !.executed = @ + 1,
                         !.invoked = @ \cup {i}]

\* lines 45-172: one iteration of the loop over operations
executeOp(acc, stopOnError, registry, i, op) ==
    LET bad == opFailure(op, registry)
        h == pcallHandler(op.outcome)
    IN  IF acc.stoppedEarly
        THEN [acc EXCEPT !.results =
                Append(@, Failure(i, SKIPPED, <<"Skipped (stopOnError)">>))]
        ELSE IF bad # Nil
        THEN failedOp(acc, stopOnError, i, bad[1].code, bad[1].message)
        ELSE IF ~h.ok
        THEN [failedOp(acc, stopOnError, i, INTERNAL_ERROR, <<"Handler error", h.result[1]>>)
                EXCEPT !.invoked = @ \cup {i}]
        ELSE IF h.result = Nil /\ h.handlerErr # Nil
        THEN [failedOp(acc, stopOnError, i, INTERNAL_ERROR, h.handlerErr[1])
                EXCEPT !.invoked = @ \cup {i}]
        ELSE [acc EXCEPT !.results = Append(@, Entry(i, TRUE, h.result, Nil)),
                         !.succeeded = @ + 1,
                         !.executed = @ + 1,
                         !.invoked = @ \cup {i}]

\* the loop as a whole, from iteration i on
RECURSIVE executeFrom(_, _, _, _, _)
executeFrom(acc, operations, stopOnError, registry, i) ==
    IF i > Len(operations) THEN acc
    ELSE executeFrom(executeOp(acc, stopOnError, registry, i, operations[i]),
                     operations, stopOnError, registry, i + 1)

\* a summary that counts every entry as executed
summaryCountingEntries(operations, acc) ==
    [total |-> Len(operations), executed |-> Len(acc.results),
     succeeded |-> acc.succeeded, failed |-> acc.failed,
     stoppedEarly |-> acc.stoppedEarly]

\* lines 178-184
summaryOf(operations, acc) ==
    [total |-> Len(operations), executed |-> acc.executed,
     succeeded |-> acc.succeeded, failed |-> acc.failed,
     stoppedEarly |-> acc.stoppedEarly]

\* lines 176-185: the table batch.execute returns
batchResult(b) ==
    [results |-> b.acc.results, summary |-> summaryOf(b.operations, b.acc)]

\* lines 21-43: the tests on params.operations, which the validator has
\* found to be a table
BatchEnter ==
    /\ batch.pc = "called"
    /\ batch' =
          IF Len(batch.operations) = 0
          THEN [batch EXCEPT !.pc = "rejected",
                  !.acc.err = Some(<<"operations must be a non-empty array">>)]
          ELSE IF tooMany(Len(batch.operations))
          THEN [batch EXCEPT !.pc = "rejected",
                  !.acc.err = Some(<<"Too many operations">>)]
          ELSE [batch EXCEPT !.pc = "loop", !.i = 1]
    /\ UNCHANGED << clientVars, now, dirVars, serverVars, srvWritten, apiVars, auxVars >>

\* one iteration of the for loop
BatchStep ==
    /\ batch.pc = "loop"
    /\ batch.i <= Len(batch.operations)
    /\ batch' = [batch EXCEPT
                   !.acc = executeOp(batch.acc, stopOnErrorOf(batch.stopOnError),
                                     batch.registry, batch.i,
                                     batch.operations[batch.i]),
                   !.i = @ + 1]
    /\ UNCHANGED << clientVars, now, dirVars, serverVars, srvWritten, apiVars, auxVars >>

\* the return after the loop
BatchReturn ==
    /\ batch.pc = "loop"
    /\ batch.i > Len(batch.operations)
    /\ batch' = [batch EXCEPT !.pc = "returned"]
    /\ UNCHANGED << clientVars, now, dirVars, serverVars, srvWritten, apiVars, auxVars >>

\* json.encode of the table batch.execute returns: encode_value raises on
\* a value of a type it cannot encode, wherever in the table it is
batchEncodes(result) ==
    \A k \in 1..Len(result.results) :
        \/ result.results[k].result = Nil
        \/ result.results[k].result[1] \notin Unencodable

\* server.lua lines 282-293 and 320-326 for the handler batch.execute: what
\* processRequest makes of its return values, and what poll writes
batchResponse(id, b) ==
    IF b.pc = "rejected"
    THEN pollResponse(Returned(createError(id, INTERNAL_ERROR, b.acc.err[1], Nil), TRUE))
    ELSE IF ~batchEncodes(batchResult(b))
    THEN pollResponse(Returned([ok |-> FALSE, text |-> << >>], TRUE))
    ELSE [jsonrpc |-> "2.0", id |-> id[1], result |-> batchResult(b)]

\* processRequest and poll after batch.execute has returned to them
BatchRespond ==
    /\ batch.pc \in {"returned", "rejected"}
    /\ batch.response = Nil
    /\ batch' = [batch EXCEPT !.response = Some(batchResponse(Some(1), batch))]
    /\ UNCHANGED << clientVars, now, dirVars, serverVars, srvWritten, apiVars, auxVars >>

\* ------------------------------------------------------------------------
\* server.lua : poll, for a request whose handler is batch.execute
\* ------------------------------------------------------------------------

\* the request file req_<id>.json is one processRequest calls the handler
\* batch.execute for
batchCall(id) ==
    /\ id \in DOMAIN reqFile
    /\ LET p == parseRequest(reqFile[id])
       IN  /\ p.request # Nil
           /\ p.request[1].method = "batch.execute"
           /\ dispatchChecks("batch.execute",
                             IF p.request[1].params # Nil
                             THEN p.request[1].params[1] ELSE LuaTable(<< >>),
                             handlers) = Nil

\* the iteration the poll is in is one for a batch request
BatchIteration ==
    /\ srv.content # Nil
    /\ srv.invoked
    /\ "method" \in DOMAIN srv.content[1].body
    /\ srv.content[1].body.method = "batch.execute"

\* an iteration for any other request
PollDirect(outcomes) ==
    /\ srv.pc = "loop"
    /\ ~batchCall(Head(srv.queue))
    /\ PollProcess(outcomes)

\* an iteration up to the call of the handler: readFile, processRequest as
\* far as pcall(handler, moho, params) with handler = batch.execute
PollBatchCall(inputs, flags) ==
    /\ srv.pc = "loop"
    /\ batchCall(Head(srv.queue))
    /\ LET id == Head(srv.queue) IN
       /\ srv' = [srv EXCEPT !.pc = "handler", !.cur = id,
                             !.content = Some(reqFile[id]),
                             !.outcome = "value", !.invoked = TRUE]
       /\ handled' = With(handled, id,
                          (IF id \in DOMAIN handled THEN handled[id] ELSE 0) + 1)
    /\ \E operations \in inputs, stopOnError \in flags :
          batch' = BatchState("called", operations, stopOnError, handlers, 0, NoResults)
    /\ UNCHANGED << clientVars, now, dirVars, isLoaded, handlers, isRunning, pollActive,
                    srvWritten, apiVars, returned, tool, eval, instance, hooks >>

\* a count of processed requests that adds a batch's operations
processedAfterPerOp(processed, b) ==
    processed + (IF b.pc = "returned" THEN Len(b.operations) ELSE 1)

\* line 337: processed = processed + 1, whatever the handler was
processedAfter(processed, b) == processed + 1

\* batch.execute has returned: the rest of processRequest and the start of
\* writeFile
PollBatchReturn ==
    /\ srv.pc = "handler"
    /\ batch.pc \in {"returned", "rejected"}
    /\ LET req == srv.content[1] IN
       /\ respTmp' = With(respTmp, respNameFor(srv.cur),
                          WrittenFor(FileContent(batchResponse(Some(idIn(req)), batch),
                                                 FALSE, idIn(req)),
                                     req.by))
       /\ srv' = [srv EXCEPT !.pc = "writing",
                             !.procOk = batchEncodes(batchResult(batch))]
    /\ UNCHANGED << clientVars, now, statusFile, reqTmp, reqFile, respFile, isLoaded,
                    handlers, isRunning, pollActive, srvWritten, apiVars, batch, auxVars >>

\* os.remove(reqPath); processed = processed + 1 at the end of the
\* iteration for a batch request
PollBatchRemoveReq ==
    /\ srv.pc = "remove"
    /\ BatchIteration
    /\ reqFile' = Without(reqFile, srv.cur)
    /\ srv' = Continue(Tail(srv.queue), processedAfter(srv.processed, batch))
    /\ UNCHANGED << clientVars, now, statusFile, reqTmp, respTmp, respFile, isLoaded,
                    handlers, isRunning, pollActive, srvWritten, apiVars, batch, auxVars >>

\* ------------------------------------------------------------------------
\* index.ts : a new bridge process
\* ------------------------------------------------------------------------

\* The bridge process ends when none of its calls is pending and a new one
\* is started: new MohoClient() with connected = false and nextId = 1.  The
\* directory and the server are as they were.
NewChannel ==
    /\ instance < MaxInstances
    /\ \A id \in DOMAIN calls : calls[id].pc \in {"completed", "timedout"}
    /\ instance' = instance + 1
    /\ connected' = FALSE
    /\ nextId' = 1
    /\ calls' = << >>
    /\ allocated' = << >>
    /\ returned' = << >>
    /\ UNCHANGED << rejects, now, dirVars, serverVars, srvWritten, apiVars, batch,
                    tool, eval, handled, hooks >>

\* ------------------------------------------------------------------------
\* tools.ts : a tool handler
\* ------------------------------------------------------------------------

\* errorContent(err): the handler returns isError with the error's message
errorContent(id, cause) == ToolState("returned", id, TRUE, cause)

\* an ensureConnected that never connects
needsConnectNever(conn) == FALSE

\* line 59: if (!client.isConnected())
needsConnect(conn) == ~conn

\* the MCP server calls the handler of a tool
ToolCall ==
    /\ tool.pc \in {"idle", "returned"}
    /\ tool' = ToolState("ensure", 0, FALSE, "none")
    /\ UNCHANGED << clientVars, now, dirVars, serverVars, srvWritten, apiVars, batch,
                    returned, eval, histVars >>

\* await ensureConnected(client): connect() when the channel is not
\* connected; a throw of connect() is caught by the handler
ToolEnsure ==
    /\ tool.pc = "ensure"
    /\ IF needsConnect(connected)
       THEN /\ connected' = connect(connected, statusFile).connected
            /\ tool' = IF connect(connected, statusFile).threw
                       THEN errorContent(0, "connect failed")
                       ELSE [tool EXCEPT !.pc = "send"]
       ELSE /\ tool' = [tool EXCEPT !.pc = "send"]
            /\ UNCHANGED connected
    /\ UNCHANGED << nextId, calls, rejects, allocated, now, dirVars, serverVars,
                    srvWritten, apiVars, batch, returned, eval, histVars >>

\* await client.sendRequest(...): the call up to its first await; the
\* "Not connected" throw is caught by the handler
ToolSend(method, params, option, limit) ==
    /\ tool.pc = "send"
    /\ IF ~mayProceed(connected)
       THEN /\ tool' = errorContent(0, "not connected")
            /\ UNCHANGED << clientVars, now, dirVars, serverVars, srvWritten, apiVars,
                            batch, returned, eval, histVars >>
       ELSE /\ sendRequest(method, params, option, limit)
            /\ tool' = [tool EXCEPT !.pc = "awaiting", !.id = nextId]

\* the awaited call has returned or thrown: the handler returns the result
\* as content, or catches the error
ToolReturn ==
    /\ tool.pc = "awaiting"
    /\ tool.id \in DOMAIN returned
    /\ tool' = IF returned[tool.id].kind = "result"
               THEN ToolState("returned", tool.id, FALSE, "none")
               ELSE errorContent(tool.id, returned[tool.id].kind)
    /\ UNCHANGED << clientVars, now, dirVars, serverVars, srvWritten, apiVars, batch,
                    returned, eval, histVars >>

\* ------------------------------------------------------------------------
\* request files of other writers
\* ------------------------------------------------------------------------

\* some process renames a file to req_<k>.json
PlaceRequest(k, content) ==
    /\ k \notin DOMAIN reqFile
    /\ k \notin srvWritten
    /\ reqFile' = With(reqFile, k, content)
    /\ UNCHANGED << clientVars, now, statusFile, reqTmp, respTmp, respFile, serverVars,
                    srvWritten, apiVars, batch, auxVars >>

\* ------------------------------------------------------------------------
\* validator.lua called on its own
\* ------------------------------------------------------------------------

\* validator.isAllowed(method)
EvalIsAllowed ==
    /\ eval.fn = "input"
    /\ eval' = [eval EXCEPT !.fn = "isAllowed", !.result = Some(isAllowed(eval.args.method))]
    /\ UNCHANGED << clientVars, now, dirVars, serverVars, srvWritten, apiVars, batch,
                    returned, tool, histVars >>

\* validator.validateParams(method, params) for a method that is a string
EvalValidateParams ==
    /\ eval.fn = "input"
    /\ eval.args.method.type = "string"
    /\ eval' = [eval EXCEPT !.fn = "validateParams",
                            !.result = Some(validateParams(eval.args.method.text, eval.args.params))]
    /\ UNCHANGED << clientVars, now, dirVars, serverVars, srvWritten, apiVars, batch,
                    returned, tool, histVars >>

\* ------------------------------------------------------------------------
\* the shared directory each side computes when it starts
\* ------------------------------------------------------------------------

\* the bridge loads config.ts and the plugin calls getIpcDir in server.start
EvalIpcDirs ==
    /\ eval.fn = "environment"
    /\ eval' = [eval EXCEPT !.fn = "ipcDirs",
                            !.result = Some([client |-> defaultIpcDir(eval.args),
                                             server |-> getIpcDir(eval.args)])]
    /\ UNCHANGED << clientVars, now, dirVars, serverVars, srvWritten, apiVars, batch,
                    returned, tool, histVars >>

\* ------------------------------------------------------------------------
\* The system
\* ------------------------------------------------------------------------

CallIds == 1..(MaxCalls + DispatchCalls)

ClientStep ==
    \/ Connect
    \/ Disconnect
    \/ \E id \in CallIds : ClientWriteDone(id)
    \/ \E id \in CallIds : ClientRename(id)
    \/ \E id \in CallIds : ClientPoll(id)
    \/ \E id \in CallIds : ClientFinish(id)
    \/ \E id \in CallIds : ClientTimeout(id)

ServerStep ==
    \/ InitialPoll
    \/ Tick
    \/ PollWriteDone
    \/ PollRename
    \/ PollRemoveReq

\* up to MaxCalls concurrent calls of one kind
Next ==
    \/ ClientStep
    \/ ServerStep
    \/ Advance
    \/ \E input \in ChannelInputs, option \in ChannelOptions :
          SendRequest(input.method, input.params, option, MaxCalls)
    \/ Run(ChannelFailures)
    \/ PollProcess(ChannelOutcomes)

Spec == Init /\ [][Next]_vars

\* up to DispatchCalls calls of every kind
NextDispatch ==
    \/ ClientStep
    \/ ServerStep
    \/ Advance
    \/ \E input \in RequestInputs, option \in DispatchOptions :
          SendRequest(input.method, input.params, option, DispatchCalls)
    \/ Run(LoadFailures)
    \/ PollProcess(HandlerOutcomes)

SpecDispatch == Init /\ [][NextDispatch]_vars

\* up to DispatchCalls calls with and without a timeout option
NextTimeout ==
    \/ ClientStep
    \/ ServerStep
    \/ Advance
    \/ \E input \in ChannelInputs, option \in TimeoutOptions :
          SendRequest(input.method, input.params, option, DispatchCalls)
    \/ Run(ChannelFailures)
    \/ PollProcess(TimeoutOutcomes)

SpecTimeout == Init /\ [][NextTimeout]_vars

\* enough concurrent calls for one tick to find more pending requests than
\* it may process
TickCalls == PerTickCap + 1

\* up to TickCalls concurrent calls of one kind, without a timeout option
NextTick ==
    \/ ClientStep
    \/ ServerStep
    \/ Advance
    \/ \E input \in ChannelInputs, option \in DispatchOptions :
          SendRequest(input.method, input.params, option, TickCalls)
    \/ Run(ChannelFailures)
    \/ PollProcess(TimeoutOutcomes)

SpecTick == Init /\ [][NextTick]_vars

\* the directory as an earlier session left it
LeftoverRequest(id) ==
    FileContent(requestBody(id, "document.getInfo", [layerId |-> "undefined"]), TRUE, 0)

LeftoverResponse(id) ==
    FileContent([jsonrpc |-> "2.0", id |-> id, result |-> "value"], TRUE, id)

InitLifecycle ==
    /\ connected = FALSE
    /\ nextId = 1
    /\ calls = << >>
    /\ rejects = 0
    /\ allocated = << >>
    /\ now = 0
    /\ statusFile \in LeftoverStatus
    /\ reqTmp = << >>
    /\ \E ids \in LeftoverRequests : reqFile = [k \in ids |-> LeftoverRequest(k)]
    /\ respTmp = << >>
    /\ \E ids \in LeftoverResponses : respFile = [k \in ids |-> LeftoverResponse(k)]
    /\ isLoaded = FALSE
    /\ handlers = {}
    /\ isRunning = FALSE
    /\ pollActive = FALSE
    /\ srv = IdlePoll
    /\ srvWritten = {}
    /\ connectCall = NoConnect
    /\ hostCall = NoHostCall
    /\ returned = << >>
    /\ instance = 1
    /\ handled = << >>
    /\ hooks = 0
    /\ tool = IdleTool
    /\ eval = NoEval
    /\ batch = IdleBatch

\* connect, start and stop in any order, with up to DispatchCalls calls
NextLifecycle ==
    \/ ConnectCall
    \/ Disconnect
    \/ Start
    \/ StartPublish
    \/ Stop
    \/ StopSweep
    \/ \E input \in ChannelInputs, option \in ChannelOptions :
          SendRequest(input.method, input.params, option, DispatchCalls)
    \/ \E id \in CallIds : ClientWriteDone(id)
    \/ \E id \in CallIds : ClientRename(id)
    \/ \E id \in CallIds : ClientPoll(id)
    \/ \E id \in CallIds : ClientTimeout(id)
    \/ Advance

SpecLifecycle == InitLifecycle /\ [][NextLifecycle]_vars

\* the batches given to batch.execute: every sequence of up to MaxOps
\* operations, and batches of MAX_OPERATIONS and MAX_OPERATIONS + 1
BatchInputs ==
    UNION { [1..n -> OpKinds] : n \in 0..MaxOps }
      \cup { [i \in 1..n |-> BatchOp(TRUE, Some("document.getInfo"), Nil, "value")] :
                n \in {MAX_OPERATIONS, MAX_OPERATIONS + 1} }

\* batch.execute called with any of the inputs
InitBatch ==
    /\ connected = FALSE
    /\ nextId = 1
    /\ calls = << >>
    /\ rejects = 0
    /\ allocated = << >>
    /\ now = 0
    /\ statusFile = Nil
    /\ reqTmp = << >>
    /\ reqFile = << >>
    /\ respTmp = << >>
    /\ respFile = << >>
    /\ isLoaded = FALSE
    /\ handlers = {}
    /\ isRunning = FALSE
    /\ pollActive = FALSE
    /\ srv = IdlePoll
    /\ srvWritten = {}
    /\ connectCall = NoConnect
    /\ hostCall = NoHostCall
    /\ returned = << >>
    /\ instance = 1
    /\ handled = << >>
    /\ hooks = 0
    /\ tool = IdleTool
    /\ eval = NoEval
    /\ \E operations \in BatchInputs, option \in StopOnErrorInputs,
          registry \in BatchRegistries :
          batch = BatchState("called", operations, option, registry, 0, NoResults)

NextBatch ==
    \/ BatchEnter
    \/ BatchStep
    \/ BatchReturn
    \/ BatchRespond

SpecBatch == InitBatch /\ [][NextBatch]_vars

\* the menu command invoked any number of times, with a server.start that
\* can fail, beside up to DispatchCalls calls
StartOutcomes == {TRUE, FALSE}

NextMenu ==
    \/ ClientStep
    \/ ServerStep
    \/ Advance
    \/ \E input \in ChannelInputs, option \in DispatchOptions :
          SendRequest(input.method, input.params, option, DispatchCalls)
    \/ RunStart(ChannelFailures, StartOutcomes)
    \/ PollProcess(TimeoutOutcomes)

SpecMenu == Init /\ [][NextMenu]_vars

\* bridge processes one after the other, each making up to DispatchCalls
\* calls with a timeout they can miss
NextRestart ==
    \/ ClientStep
    \/ ServerStep
    \/ Advance
    \/ \E input \in ChannelInputs, option \in ChannelOptions :
          SendRequest(input.method, input.params, option, DispatchCalls)
    \/ Run(ChannelFailures)
    \/ PollProcess(TimeoutOutcomes)
    \/ NewChannel

SpecRestart == Init /\ [][NextRestart]_vars

\* tool handlers called one after the other, with the server started and
\* stopped at any time
NextTools ==
    \/ ToolCall
    \/ ToolEnsure
    \/ \E input \in RequestInputs, option \in DispatchOptions :
          ToolSend(input.method, input.params, option, ToolCalls)
    \/ ToolReturn
    \/ \E id \in 1..ToolCalls : ClientWriteDone(id)
    \/ \E id \in 1..ToolCalls : ClientRename(id)
    \/ \E id \in 1..ToolCalls : ClientPoll(id)
    \/ \E id \in 1..ToolCalls : ClientFinish(id)
    \/ \E id \in 1..ToolCalls : ClientTimeout(id)
    \/ Disconnect
    \/ Advance
    \/ ServerStep
    \/ Run(ChannelFailures)
    \/ PollProcess(ChannelOutcomes)

SpecTools == Init /\ [][NextTools]_vars

\* Run has just started the server, which keeps running; the channel is
\* connected and has completed nextId - 1 calls before: none, or as many as
\* the probe of findFilesByPrefix tolerates misses plus one.
InitLive ==
    /\ connected = TRUE
    /\ nextId \in {1, FarId}
    /\ calls = << >>
    /\ rejects = 0
    /\ allocated = [i \in 1..(nextId - 1) |-> i]
    /\ now = 0
    /\ statusFile = Some([running |-> TRUE])
    /\ reqTmp = << >>
    /\ reqFile = << >>
    /\ respTmp = << >>
    /\ respFile = << >>
    /\ isLoaded = TRUE
    /\ handlers = loadModules({})
    /\ isRunning = TRUE
    /\ pollActive = TRUE
    /\ srv = PollState("scan", << >>, 0)
    /\ srvWritten = {}
    /\ connectCall = NoConnect
    /\ hostCall = NoHostCall
    /\ returned = << >>
    /\ instance = 1
    /\ handled = << >>
    /\ hooks = 0
    /\ tool = IdleTool
    /\ eval = NoEval
    /\ batch = IdleBatch

\* the ids the calls of such a channel get
LiveIds == 1..LiveCalls \cup FarId..(FarId + LiveCalls - 1)

\* the calls of the channel, each of them within its timeout
LiveClient ==
    \/ \E input \in RequestInputs, option \in DispatchOptions :
          SendRequest(input.method, input.params, option,
                      IF nextId >= FarId THEN FarId + LiveCalls - 1 ELSE LiveCalls)
    \/ \E id \in LiveIds : ClientWriteDone(id)
    \/ \E id \in LiveIds : ClientRename(id)
    \/ \E id \in LiveIds : ClientPoll(id)
    \/ \E id \in LiveIds : ClientFinish(id)

NextLive ==
    \/ LiveClient
    \/ ServerStep
    \/ PollProcess(ChannelOutcomes)

\* the host keeps calling the callbacks, and a poll that has begun runs on
SpecLive ==
    /\ InitLive
    /\ [][NextLive]_vars
    /\ WF_vars(ServerStep)
    /\ WF_vars(PollProcess(ChannelOutcomes))

\* batch and direct requests of up to TickCalls concurrent calls, each
\* within its timeout, with the server running
TickBatchClient ==
    \/ \E input \in TickBatchRequests, option \in DispatchOptions :
          SendRequest(input.method, input.params, option, TickCalls)
    \/ \E id \in 1..TickCalls : ClientWriteDone(id)
    \/ \E id \in 1..TickCalls : ClientRename(id)
    \/ \E id \in 1..TickCalls : ClientPoll(id)
    \/ \E id \in 1..TickCalls : ClientFinish(id)

TickBatchServer ==
    \/ InitialPoll
    \/ Tick
    \/ PollWriteDone
    \/ PollRename
    \/ (~BatchIteration /\ PollRemoveReq)
    \/ PollBatchRemoveReq

NextTickBatch ==
    \/ TickBatchClient
    \/ TickBatchServer
    \/ PollDirect(TimeoutOutcomes)
    \/ PollBatchCall(TickBatchInputs, {Nil, Some(TRUE)})
    \/ BatchEnter
    \/ BatchStep
    \/ BatchReturn
    \/ PollBatchReturn

\* Run has just started the server, which keeps running, and the channel is
\* connected and has made no call yet
InitTickBatch ==
    /\ InitLive
    /\ nextId = 1

SpecTickBatch == InitTickBatch /\ [][NextTickBatch]_vars

\* the steps of one call after sendRequest's first await
CallStep(id) ==
    \/ ClientWriteDone(id)
    \/ ClientRename(id)
    \/ ClientPoll(id)
    \/ ClientFinish(id)
    \/ ClientTimeout(id)

\* up to LiveCalls calls with and without a timeout option, beside a server
\* that is started, stopped and polled at any time or never
NextTerminate ==
    \/ Connect
    \/ Disconnect
    \/ \E id \in 1..LiveCalls : CallStep(id)
    \/ \E input \in ChannelInputs, option \in TimeoutOptions :
          SendRequest(input.method, input.params, option, LiveCalls)
    \/ Wait
    \/ ServerStep
    \/ Run(ChannelFailures)
    \/ PollProcess(ChannelOutcomes)

\* Node's event loop runs every continuation that is ready and every timer
\* that is due, and time passes; nothing is assumed of the server
SpecTerminate ==
    /\ Init
    /\ [][NextTerminate]_vars
    /\ \A id \in 1..LiveCalls : WF_vars(CallStep(id))
    /\ WF_vars(Wait)

\* the server with request files of any content and no client
NextIntake ==
    \/ ServerStep
    \/ Run(ChannelFailures)
    \/ PollProcess(ChannelOutcomes)
    \/ \E k \in 1..MaxPlaced : \E content \in ForeignRequests(k) : PlaceRequest(k, content)

SpecIntake == Init /\ [][NextIntake]_vars

\* the validator's functions called on their own with any of the inputs
InitValidator ==
    /\ connected = FALSE
    /\ nextId = 1
    /\ calls = << >>
    /\ rejects = 0
    /\ allocated = << >>
    /\ now = 0
    /\ statusFile = Nil
    /\ reqTmp = << >>
    /\ reqFile = << >>
    /\ respTmp = << >>
    /\ respFile = << >>
    /\ isLoaded = FALSE
    /\ handlers = {}
    /\ isRunning = FALSE
    /\ pollActive = FALSE
    /\ srv = IdlePoll
    /\ srvWritten = {}
    /\ connectCall = NoConnect
    /\ hostCall = NoHostCall
    /\ returned = << >>
    /\ instance = 1
    /\ handled = << >>
    /\ hooks = 0
    /\ tool = IdleTool
    /\ batch = IdleBatch
    /\ \E method \in MethodValues :
          \E params \in ParamValues(method.text) :
             eval = Eval("input", ValidatorArgs(method, params), Nil)

NextValidator ==
    \/ EvalIsAllowed
    \/ EvalValidateParams

SpecValidator == InitValidator /\ [][NextValidator]_vars

\* both processes started in any of the environments
InitConfig ==
    /\ connected = FALSE
    /\ nextId = 1
    /\ calls = << >>
    /\ rejects = 0
    /\ allocated = << >>
    /\ now = 0
    /\ statusFile = Nil
    /\ reqTmp = << >>
    /\ reqFile = << >>
    /\ respTmp = << >>
    /\ respFile = << >>
    /\ isLoaded = FALSE
    /\ handlers = {}
    /\ isRunning = FALSE
    /\ pollActive = FALSE
    /\ srv = IdlePoll
    /\ srvWritten = {}
    /\ connectCall = NoConnect
    /\ hostCall = NoHostCall
    /\ returned = << >>
    /\ instance = 1
    /\ handled = << >>
    /\ hooks = 0
    /\ tool = IdleTool
    /\ batch = IdleBatch
    /\ \E env \in Environments : eval = Eval("environment", env, Nil)

NextConfig == EvalIpcDirs

SpecConfig == InitConfig /\ [][NextConfig]_vars

\* ------------------------------------------------------------------------
\* Properties
\* ------------------------------------------------------------------------

\* C1: on one channel, whatever the number of outstanding calls and the order
\* in which the server answers, the response a call with id k has read (and
\* is about to return or throw) was computed by the server from the request
\* of call k, never from another call's request.
C1_NoCrossTalk ==
    \A k \in DOMAIN calls :
        calls[k].pc = "read" =>
            /\ calls[k].got[1].forReq = k
            /\ "id" \in DOMAIN calls[k].got[1].body => calls[k].got[1].body.id = k

\* call 2 has read its response while call 1, submitted first, is still
\* waiting: the server answered out of submission order
C1_Witness ==
    /\ 2 \in DOMAIN calls
    /\ calls[2].pc = "read"
    /\ calls[1].pc \in {"writing", "written", "polling"}

\* C2: over connect, disconnect, reconnect and calls that complete, fail or
\* time out, the ids given to successive requests start at 1 and strictly
\* increase, so none is allocated twice.
C2_IdsIncrease ==
    \A i \in 1..Len(allocated) :
        /\ i = 1 => allocated[i] = 1
        /\ i > 1 => allocated[i] > allocated[i - 1]

\* a second id was allocated after the first call timed out and the channel
\* was disconnected and connected again
C2_Witness ==
    /\ Len(allocated) = 2
    /\ calls[1].pc = "timedout"
    /\ calls[2].pc = "completed"
    /\ ~connected

\* C3: a call with id k fails with the timeout error only when, at a poll
\* that found no resp_k, the time elapsed since the request was written
\* exceeds the timeout given with the call, or the default when none was
\* given; and once it has failed that way req_k.json does not exist.
C3_Timeout ==
    /\ [](\A k \in DOMAIN calls : calls[k].pc = "timedout" => k \notin DOMAIN reqFile)
    /\ [][\A k \in DOMAIN calls :
            (calls[k].pc = "polling" /\ calls'[k].pc = "expired") =>
                /\ k \notin DOMAIN respFile
                /\ now - calls[k].startTime >
                      (IF calls[k].option = Nil THEN 10000 ELSE calls[k].option[1])]_vars

\* a call has failed with the timeout error, no response having appeared
C3_Witness ==
    \E k \in DOMAIN calls :
        /\ calls[k].pc = "timedout"
        /\ k \notin DOMAIN respFile
        /\ k \notin srvWritten

\* C4: req_k.json and resp_k.json come into being only by the rename of a
\* completely written temporary file, so whatever the interleaving every
\* file under a final name is complete, and so is every content the server
\* or a call has read from one.
C4_AtomicWrite ==
    /\ [](/\ \A k \in DOMAIN reqFile : reqFile[k].complete
          /\ \A k \in DOMAIN respFile : respFile[k].complete
          /\ \A k \in DOMAIN calls : calls[k].got # Nil => calls[k].got[1].complete
          /\ srv.content # Nil => srv.content[1].complete)
    /\ [][/\ \A k \in DOMAIN reqFile' \ DOMAIN reqFile :
                /\ k \in DOMAIN reqTmp /\ reqTmp[k].complete
                /\ reqFile'[k] = reqTmp[k] /\ k \notin DOMAIN reqTmp'
          /\ \A k \in DOMAIN respFile' \ DOMAIN respFile :
                /\ k \in DOMAIN respTmp /\ respTmp[k].complete
                /\ respFile'[k] = respTmp[k] /\ k \notin DOMAIN respTmp']_vars

\* a call has read its response, and the server a request, while another
\* request is half written under its temporary name
C4_Witness ==
    /\ \E k \in DOMAIN calls : calls[k].pc = "read"
    /\ srv.content # Nil
    /\ \E j \in DOMAIN reqTmp : ~reqTmp[j].complete

\* the request poll is working on and the response it is writing for it
InIteration == srv.pc \in {"writing", "written"}

CurRequest == srv.content[1]

CurResponse == respTmp[srv.cur].body

ErrorIs(resp, code) == "error" \in DOMAIN resp /\ resp.error.code = code

\* C5: when a tick processes a request whose handler raises, the server
\* still writes resp_k with an error of code -32603, still deletes req_k and
\* goes on with the remaining pending requests of the tick.
C5_HandlerRaise ==
    /\ [](srv.outcome = "raise" => srv.pc \in {"writing", "written", "remove"})
    /\ [][(srv' # srv /\ srv.outcome = "raise") =>
            /\ srv.pc = "writing" => srv'.pc = "written"
            /\ srv.pc = "written" =>
                  /\ srv'.pc = "remove"
                  /\ srv.cur \in DOMAIN respFile'
                  /\ respFile'[srv.cur].complete
                  /\ ErrorIs(respFile'[srv.cur].body, -32603)
            /\ srv.pc = "remove" =>
                  /\ srv.cur \notin DOMAIN reqFile'
                  /\ (srv.processed + 1 < 2 /\ Tail(srv.queue) # << >>) =>
                        (srv'.pc = "loop" /\ srv'.queue = Tail(srv.queue))]_vars

\* the handler of the first of two pending requests raised; its response is
\* in place and the second request is still to be visited
C5_Witness ==
    /\ srv.pc = "remove"
    /\ srv.outcome = "raise"
    /\ Len(srv.queue) = 2
    /\ srv.cur \in DOMAIN respFile
    /\ srv.queue[2] \in DOMAIN reqFile

\* C6 as stated: whenever the server removes a request file req_k (a removal
\* that is not the timeout cleanup of call k), it has written resp_k before.
C6_DeleteOnlyAfterResponse ==
    [][\A k \in DOMAIN reqFile \ DOMAIN reqFile' :
          calls' = calls => k \in srvWritten]_vars

\* C6 as amended: whenever poll removes a request file req_k, the server has
\* written resp_k before; only the sweeps of start and stop (which run when
\* no poll is in progress) remove request files unanswered.
C6_PollDeletesAfterResponse ==
    [][\A k \in DOMAIN reqFile \ DOMAIN reqFile' :
          (calls' = calls /\ srv.pc # "idle") =>
              /\ srv.pc = "remove"
              /\ k = srv.cur
              /\ k \in srvWritten]_vars

\* inside a tick the server has answered and removed one request whose call
\* is still polling
C6_Witness ==
    /\ srv.pc = "loop"
    /\ srv.processed = 1
    /\ \E k \in srvWritten :
          k \notin DOMAIN reqFile /\ k \in DOMAIN respFile /\ calls[k].pc = "polling"

C8_ExactlyOneOfResultError ==
    InIteration =>
        (("result" \in DOMAIN CurResponse) <=> ~("error" \in DOMAIN CurResponse))

\* the schema of an allow-listed method holds of the JSON params of a request
SchemaHolds(method, jsonParams) ==
    \A i \in 1..Len(paramSchemas[method]) :
        /\ paramSchemas[method][i].name \in DOMAIN jsonParams
        /\ LuaTypeOf(jsonParams[paramSchemas[method][i].name])
              = paramSchemas[method][i].type

C10_RejectWhenNotConnected ==
    [][/\ ~connected =>
            /\ nextId' = nextId
            /\ allocated' = allocated
            /\ DOMAIN calls' = DOMAIN calls
            /\ DOMAIN reqTmp' \subseteq DOMAIN reqTmp
       /\ rejects' # rejects =>
            /\ ~connected
            /\ UNCHANGED << nextId, allocated, calls, dirVars >>]_vars

\* a call was rejected on a channel that had been connected, had made a call
\* and was then disconnected
C10_Witness ==
    /\ rejects = 1
    /\ ~connected
    /\ nextId = 2

\* the status artifact says the server is running
StatusRunning == statusFile # Nil /\ statusFile[1].running

\* C11: a connect on a channel that is not connected throws and leaves the
\* channel not connected whenever status.json is absent or its running flag
\* is false; it returns and marks the channel connected only when status.json
\* exists with running = true.
C11_ConnectNeedsRunningStatus ==
    [][/\ (connectCall' # connectCall /\ ~connected) =>
             IF StatusRunning
             THEN ~connectCall'.threw /\ connected'
             ELSE connectCall'.threw /\ ~connected'
       /\ (~connected /\ connected') => StatusRunning]_vars

\* a connect has thrown on a status.json whose running flag is false
C11_Witness ==
    /\ connectCall.made
    /\ connectCall.threw
    /\ ~connected
    /\ statusFile # Nil
    /\ ~statusFile[1].running

\* C12: a connect on a connected channel returns without throwing and
\* changes nothing of the channel, the directory or the server, whatever
\* status.json says by then.
C12_ConnectIdempotent ==
    [][(connectCall' # connectCall /\ connected) =>
          /\ ~connectCall'.threw
          /\ connectCall'.was
          /\ UNCHANGED << clientVars, now, dirVars, serverVars, srvWritten, hostCall >>]_vars

\* a connect has returned on a connected channel after the server stopped
\* and removed status.json
C12_Witness ==
    /\ connectCall.made
    /\ connectCall.was
    /\ ~connectCall.threw
    /\ connected
    /\ statusFile = Nil

\* C14: when server.start has made its sweeps, none of the request and
\* response files that were in the directory when it was called remains,
\* whatever their ids.
C14_StartSweepsAll ==
    [][(hostCall' # hostCall /\ hostCall'.op = "start" /\ hostCall'.pc = "swept") =>
          /\ DOMAIN reqFile \cap DOMAIN reqFile' = {}
          /\ DOMAIN respFile \cap DOMAIN respFile' = {}]_vars

C13_PerTickCap ==
    /\ [](/\ srv.processed <= 2
          /\ \A i, j \in 1..Len(srv.queue) : i < j => srv.queue[i] < srv.queue[j]
          /\ srv.pc \in {"writing", "written", "remove"} =>
                (srv.processed < 2 /\ srv.cur = Head(srv.queue)))
    /\ [][/\ (srv.pc \in {"idle", "scan"} /\ srv' # srv /\ isRunning) =>
                /\ srv'.pc \in {"loop", "idle"}
                /\ srv'.pc = "loop" =>
                      {srv'.queue[i] : i \in 1..Len(srv'.queue)} = DOMAIN reqFile
          /\ (srv.pc \in {"loop", "writing", "written", "remove"} /\ srv' # srv) =>
                /\ \A k \in DOMAIN reqFile \ {srv.cur} :
                      k \in DOMAIN reqFile' /\ reqFile'[k] = reqFile[k]
                /\ \A k \in DOMAIN respFile' \ DOMAIN respFile : k = srv.cur
          /\ (srv.pc = "remove" /\ srv' # srv /\ srv.processed = 1) =>
                srv'.pc = "idle"]_vars

\* poll is about to finish its second request of the tick while a third
\* request file it has listed is still pending
C13_Witness ==
    /\ srv.pc = "remove"
    /\ srv.processed = 1
    /\ Len(srv.queue) = 2
    /\ srv.queue[2] \in DOMAIN reqFile
    /\ srv.queue[2] \notin srvWritten

\* the result of the batch that has returned
BatchReturned == batch.pc = "returned"

Results == batchResult(batch).results

Summary == batchResult(batch).summary

\* stopOnError was given as false or left out
NoStopOnError == batch.stopOnError \in { Nil, Some(FALSE) }

\* the parameters of an operation satisfy the schema of its method
ParamsFit(op) ==
    \A k \in 1..Len(paramSchemas[op.method[1]]) :
        /\ op.params # Nil
        /\ paramSchemas[op.method[1]][k].name \in DOMAIN op.params[1].fields
        /\ op.params[1].fields[paramSchemas[op.method[1]][k].name]
              = paramSchemas[op.method[1]][k].type

\* the operation reaches its handler: it is well formed, is neither of the
\* two methods barred from batches, is on the allow-list, fits its schema
\* and has a handler
OpPasses(op, registry) ==
    /\ op.isTable
    /\ op.method # Nil
    /\ op.method[1] \notin {"document.screenshot", "batch.execute"}
    /\ op.method[1] \in allowedMethods
    /\ ParamsFit(op)
    /\ op.method[1] \in registry

\* the operation does not fail: its handler is reached and neither raises
\* nor returns nil with a message
OpSucceeds(op, registry) ==
    /\ OpPasses(op, registry)
    /\ op.outcome \in {"value", "nil_nil", "unencodable"}

ErrorCode(entry) == entry.error[1].code

\* C16: with stopOnError false (or left out), a batch of n operations
\* returns n entries in input order, entry i carrying index i; every
\* operation that reaches its handler has it called whatever failed before,
\* each operation that does not fail is marked succeeded (and no other),
\* summary.executed = n and summary.stoppedEarly = false.
C16_AllAttempted ==
    (BatchReturned /\ NoStopOnError) =>
        LET n == Len(batch.operations) IN
        /\ Len(Results) = n
        /\ \A i \in 1..n :
              /\ Results[i].index = i
              /\ Results[i].success <=> OpSucceeds(batch.operations[i], batch.registry)
        /\ batch.acc.invoked =
              {i \in 1..n : OpPasses(batch.operations[i], batch.registry)}
        /\ Summary.executed = n
        /\ Summary.stoppedEarly = FALSE

\* a batch of three whose second operation failed and whose first and third
\* succeeded
C16_Witness ==
    /\ BatchReturned
    /\ NoStopOnError
    /\ Len(batch.operations) = 3
    /\ Results[1].success
    /\ ~Results[2].success
    /\ Results[3].success
    /\ batch.acc.invoked = {1, 2, 3}

\* the position of the first operation that fails, 0 when none does
FirstFailure ==
    LET bad == {i \in 1..Len(batch.operations) :
                  ~OpSucceeds(batch.operations[i], batch.registry)}
    IN  IF bad = {} THEN 0 ELSE CHOOSE i \in bad : \A j \in bad : i <= j

\* C17: with stopOnError true, once an operation has failed (structural
\* check, denylist, allow-list, validation, missing handler, handler raising
\* or returning nil with a message) no handler is called for any later
\* operation and each later entry is success = false with code -32000 and
\* message "Skipped (stopOnError)"; summary.executed is the position of the
\* first failure.
C17_StopOnError ==
    (BatchReturned /\ batch.stopOnError = Some(TRUE) /\ FirstFailure > 0) =>
        /\ Len(Results) = Len(batch.operations)
        /\ \A j \in 1..Len(batch.operations) :
              /\ j < FirstFailure => Results[j].success
              /\ j = FirstFailure =>
                    (~Results[j].success /\ ErrorCode(Results[j]) # -32000)
              /\ j > FirstFailure =>
                    /\ j \notin batch.acc.invoked
                    /\ Results[j] =
                          [index |-> j, success |-> FALSE, result |-> Nil,
                           error |-> Some([code |-> -32000,
                                           message |-> <<"Skipped (stopOnError)">>])]
        /\ Summary.executed = FirstFailure
        /\ Summary.stoppedEarly = TRUE

\* the handler of the second of three operations failed, and the third,
\* which would have succeeded, was skipped
C17_Witness ==
    /\ BatchReturned
    /\ batch.stopOnError = Some(TRUE)
    /\ Len(batch.operations) = 3
    /\ Results[1].success
    /\ ~Results[2].success
    /\ ErrorCode(Results[2]) = -32603
    /\ OpSucceeds(batch.operations[3], batch.registry)
    /\ ~Results[3].success
    /\ ErrorCode(Results[3]) = -32000
    /\ 3 \notin batch.acc.invoked

\* the entries of a kind
SkippedEntries ==
    {i \in 1..Len(Results) : ~Results[i].success /\ ErrorCode(Results[i]) = -32000}

FailedEntries ==
    {i \in 1..Len(Results) : ~Results[i].success /\ ErrorCode(Results[i]) # -32000}

SucceededEntries == {i \in 1..Len(Results) : Results[i].success}

\* C18: in every batch result executed = succeeded + failed, total >=
\* executed, total is the number of entries, and the skipped entries are
\* counted neither as executed nor as failed.
C18_SummaryCounts ==
    BatchReturned =>
        /\ Summary.executed = Summary.succeeded + Summary.failed
        /\ Summary.total >= Summary.executed
        /\ Summary.total = Len(Results)
        /\ Summary.succeeded = Cardinality(SucceededEntries)
        /\ Summary.failed = Cardinality(FailedEntries)
        /\ Summary.executed = Summary.total - Cardinality(SkippedEntries)

\* a result with one entry of each kind: succeeded, failed, skipped
C18_Witness ==
    /\ BatchReturned
    /\ Cardinality(SucceededEntries) = 1
    /\ Cardinality(FailedEntries) = 1
    /\ Cardinality(SkippedEntries) = 1

\* C19: a batch of more than 50 operations is rejected with a single error,
\* no handler called and no entry produced; a batch of exactly 50 is
\* accepted and all its operations are executed.
C19_MaxOperations ==
    /\ (Len(batch.operations) > 50 /\ batch.pc \notin {"idle", "called"}) =>
          /\ batch.pc = "rejected"
          /\ batch.acc.err = Some(<<"Too many operations">>)
          /\ batch.acc.results = << >>
          /\ batch.acc.invoked = {}
    /\ Len(batch.operations) = 50 =>
          /\ batch.pc # "rejected"
          /\ batch.acc.err = Nil
          /\ BatchReturned => (Len(Results) = 50 /\ batch.acc.invoked = 1..50)

\* a batch of 51 operations has been rejected
C19_Witness ==
    /\ batch.pc = "rejected"
    /\ Len(batch.operations) = 51
    /\ batch.acc.invoked = {}

\* a sequence without its i-th element
RemoveAt(seq, i) ==
    [j \in 1..(Len(seq) - 1) |-> IF j < i THEN seq[j] ELSE seq[j + 1]]

\* an entry without its index
Outcome(entry) ==
    [success |-> entry.success, result |-> entry.result, error |-> entry.error]

\* C20: in a batch an operation naming document.screenshot or batch.execute
\* never has its handler called and, unless it is skipped, is recorded as
\* failed with code -32601; with stopOnError false (or left out) the other
\* entries are what the batch without that operation gives.
C20_Denylist ==
    BatchReturned =>
        \A i \in 1..Len(batch.operations) :
            (/\ batch.operations[i].isTable
             /\ batch.operations[i].method \in
                   {Some("document.screenshot"), Some("batch.execute")}) =>
                /\ i \notin batch.acc.invoked
                /\ ~Results[i].success
                /\ ErrorCode(Results[i]) \in {-32601, -32000}
                /\ NoStopOnError =>
                      LET without ==
                            executeFrom(NoResults, RemoveAt(batch.operations, i),
                                        FALSE, batch.registry, 1)
                      IN  /\ ErrorCode(Results[i]) = -32601
                          /\ Len(without.results) = Len(Results) - 1
                          /\ \A j \in 1..Len(Results) :
                                /\ j < i => Outcome(Results[j]) = Outcome(without.results[j])
                                /\ j > i => Outcome(Results[j]) = Outcome(without.results[j - 1])
                          /\ without.invoked =
                                {j \in batch.acc.invoked : j < i}
                                  \cup {j - 1 : j \in {k \in batch.acc.invoked : k > i}}

\* a nested batch call between two operations that succeeded
C20_Witness ==
    /\ BatchReturned
    /\ NoStopOnError
    /\ Len(batch.operations) = 3
    /\ batch.operations[2].method = Some("batch.execute")
    /\ ErrorCode(Results[2]) = -32601
    /\ Results[1].success
    /\ Results[3].success
    /\ batch.acc.invoked = {1, 3}

\* ------------------------------------------------------------------------
\* C27  When a call with id k completes, the client has deleted resp_k.json
\* before returning: a success response yields its result, an error
\* response yields a thrown error with the error's code and message (and
\* its data when there is one), and resp_k.json no longer exists afterwards.
\* ------------------------------------------------------------------------

\* the call with this id completes in this step
Completes(id) ==
    /\ id \in DOMAIN calls
    /\ calls[id].pc = "read"
    /\ calls'[id].pc = "completed"

\* what the caller gets agrees with the response object that was read
YieldsWhatWasRead(body, outcome) ==
    IF "error" \in DOMAIN body
    THEN /\ outcome.kind = "moho_error"
         /\ outcome.value[1].code = body.error.code
         /\ outcome.value[1].message = body.error.message
         /\ ("data" \in DOMAIN body.error) = (outcome.value[1].data # Nil)
    ELSE /\ outcome.kind = "result"
         /\ outcome.value = IF "result" \in DOMAIN body THEN Some(body.result) ELSE Nil

LacksEnvelope(content) ==
    \/ ~content.complete
    \/ "jsonrpc" \notin DOMAIN content.body
    \/ content.body.jsonrpc # "2.0"
    \/ "id" \notin DOMAIN content.body
    \/ ("result" \notin DOMAIN content.body /\ "error" \notin DOMAIN content.body)

\* for every response content a call has read
C25_ParseResponseRejects ==
    \A id \in DOMAIN calls :
        (calls[id].pc = "read" /\ LacksEnvelope(calls[id].got[1]))
            => ~parseResponse(calls[id].got[1]).ok

\* ------------------------------------------------------------------------
\* C21  For any operations array of 1 to 50 entries the batch request yields
\* a success response (a result holding results and summary) whatever the
\* individual operations do; only an empty or over-long operations value
\* turns the call into an error response.
\* ------------------------------------------------------------------------
C21_BatchAlwaysSucceeds ==
    batch.response # Nil =>
        IF Len(batch.operations) \in 1..MAX_OPERATIONS
        THEN /\ "result" \in DOMAIN batch.response[1]
             /\ "error" \notin DOMAIN batch.response[1]
        ELSE "error" \in DOMAIN batch.response[1]

\* ------------------------------------------------------------------------
\* C22  isAllowed(m) is true exactly when m is, character for character,
\* one of the names in the static allow-list; a name differing only in
\* letter case or by added whitespace, the empty string, and values that
\* are not strings are all rejected.
\* ------------------------------------------------------------------------
C22_IsAllowedExact ==
    eval.fn = "isAllowed" =>
        /\ eval.result[1] = (eval.args.method.type = "string"
                               /\ \E m \in allowedMethods : m = eval.args.method.text)
        /\ eval.args.method.type # "string" => ~eval.result[1]
        /\ eval.args.method.text \in DOMAIN NameVariants \cup {""} => ~eval.result[1]

\* a name with a leading blank has been looked up and rejected
C22_Witness ==
    /\ eval.fn = "isAllowed"
    /\ eval.args.method = LuaString(" document.getInfo")
    /\ eval.result = Some(FALSE)

\* ------------------------------------------------------------------------
\* C23  validateParams(method, params) passes exactly when the method has a
\* schema and either the schema is empty (params may then be anything) or
\* params is a table in which every schema field is present with the
\* declared type; extra fields never cause a failure.
\* ------------------------------------------------------------------------

\* params is a table that gives every field of the schema the declared type
EveryFieldFits(schema, params) ==
    /\ params.type = "table"
    /\ \A k \in 1..Len(schema) :
          /\ schema[k].name \in DOMAIN params.fields
          /\ params.fields[schema[k].name] = schema[k].type

C23_ValidateParamsExact ==
    eval.fn = "validateParams" =>
        LET method == eval.args.method.text IN
        eval.result[1].ok =
            /\ method \in DOMAIN paramSchemas
            /\ \/ Len(paramSchemas[method]) = 0
               \/ EveryFieldFits(paramSchemas[method], eval.args.params)

\* a call with an extra field has passed, and the schema is not empty
C23_Witness ==
    /\ eval.fn = "validateParams"
    /\ eval.args.method = LuaString("bone.getProperties")
    /\ eval.args.params.type = "table"
    /\ "extra" \in DOMAIN eval.args.params.fields
    /\ eval.result[1].ok

\* ------------------------------------------------------------------------
\* C24  validateParams checks presence before type and reports a single
\* violation: when the parameters lack one required field and give another
\* a wrong type, the violation reported is the missing field; a type
\* mismatch is reported only when every required field is present.
\* ------------------------------------------------------------------------
C24_PresenceBeforeType ==
    (eval.fn = "validateParams" /\ ~eval.result[1].ok
        /\ eval.result[1].err[1][1] = "Invalid parameter type") =>
        LET schema == paramSchemas[eval.args.method.text] IN
        \A k \in 1..Len(schema) : schema[k].name \in DOMAIN eval.args.params.fields

\* ------------------------------------------------------------------------
\* C29  When MOHO_MCP_IPC_DIR is set, the client channel and the server
\* loop both use that directory as the shared directory.
\* ------------------------------------------------------------------------
C29_SameDirectory ==
    (eval.fn = "ipcDirs" /\ eval.args.MOHO_MCP_IPC_DIR \notin {Nil, Some(<< >>)}) =>
        /\ eval.result[1].client = eval.args.MOHO_MCP_IPC_DIR[1]
        /\ eval.result[1].server = eval.args.MOHO_MCP_IPC_DIR[1]

\* ------------------------------------------------------------------------
\* C26  A request file req_k whose content is empty, malformed JSON, not an
\* object, or lacks the "2.0" version tag, the id or a non-empty string
\* method is answered with an error response of code -32700 written to
\* resp_k (k from the file name) and is then deleted; no handler is invoked
\* for it.
\* ------------------------------------------------------------------------

\* the content is not a request envelope
NotAnEnvelope(content) ==
    \/ content.text \in {"empty", "malformed", "scalar"}
    \/ ~content.complete
    \/ "jsonrpc" \notin DOMAIN content.body
    \/ content.body.jsonrpc # "2.0"
    \/ "id" \notin DOMAIN content.body
    \/ "method" \notin DOMAIN content.body
    \/ content.body.method = ""

\* the file is a complete error response with code -32700
IsParseError(file) ==
    /\ file.complete
    /\ "error" \in DOMAIN file.body
    /\ file.body.error.code = -32700

C30_EveryRequestServed ==
    \A k \in LiveIds :
        [](k \in DOMAIN reqFile => <>(k \in srvWritten /\ k \notin DOMAIN reqFile))

\* ------------------------------------------------------------------------
\* C28  Every bridge tool handler that talks to the server first connects
\* the channel when it is not connected, and turns any failure (connect
\* failure, timeout, error response) into a returned isError result
\* carrying the error message instead of throwing.
\* ------------------------------------------------------------------------

\* the failures of a call, by what sendRequest gave the handler
FailureKinds == {"timeout", "moho_error", "protocol_error"}

C28_ToolConnectsAndCatches ==
    /\ [][(tool.pc = "ensure" /\ tool'.pc = "send") => connected']_vars
    /\ [][(tool.pc = "ensure" /\ tool'.pc = "returned") =>
              (~connected /\ ~StatusRunning /\ tool'.isError /\ tool'.cause = "connect failed")]_vars
    /\ [][(tool.pc = "send" /\ tool'.pc = "awaiting") => connected]_vars
    /\ [][(tool.pc = "awaiting" /\ tool'.pc # "awaiting") =>
              /\ tool'.pc = "returned"
              /\ tool'.isError = (returned[tool.id].kind \in FailureKinds)
              /\ tool'.isError => tool'.cause = returned[tool.id].kind]_vars
    /\ [](tool.pc \in {"idle", "ensure", "send", "awaiting", "returned"})

\* a handler has returned isError for a call that timed out, having
\* connected the channel itself
C28_Witness ==
    /\ tool.pc = "returned"
    /\ tool.isError
    /\ tool.cause = "timeout"
    /\ connected

\* ------------------------------------------------------------------------
\* C31  A call never returns a response that was written before its own
\* request file was created, including when the directory still holds
\* orphaned response files from timed-out calls, from an earlier channel
\* instance (whose ids restarted at 1) or from an earlier server session.
\* ------------------------------------------------------------------------

\* the response a completing call has read was computed from the request
\* file this call wrote
C31_NoStaleResponse ==
    [][\A id \in CallIds :
          Completes(id) =>
              /\ calls[id].got[1].by = instance
              /\ calls[id].got[1].forReq = id]_vars

\* ------------------------------------------------------------------------
\* C32  In the timeout race on id k both outcomes are tolerated: when the
\* client deletes req_k before the server reads it, no handler runs for k
\* and no resp_k is ever written; when it deletes it after the server read
\* it, the server finishes the tick and writes resp_k, which stays orphaned
\* and affects no other id's request or response.
\* ------------------------------------------------------------------------

\* call k has timed out and the server has not read req_k
TimedOutUnread(k) ==
    /\ k \in DOMAIN calls
    /\ calls[k].pc = "timedout"
    /\ k \notin DOMAIN handled

\* call k has timed out and the server has read req_k
TimedOutRead(k) ==
    /\ k \in DOMAIN calls
    /\ calls[k].pc = "timedout"
    /\ k \in DOMAIN handled

\* the server's poll is in the iteration for request k
Serving(k) == srv.pc \in {"writing", "written", "remove"} /\ srv.cur = k

\* Deleted unread: nothing of resp_k exists and the server never reads k
\* later.  Deleted after the read: once the iteration is over resp_k has
\* been written, it goes away only with a sweep of a server start or stop,
\* and every other call that completes returns the response to its own
\* request.
C32_RaceTolerated ==
    /\ [](\A k \in CallIds :
            TimedOutUnread(k) =>
                /\ respNameFor(k) \notin srvWritten
                /\ respNameFor(k) \notin DOMAIN respFile
                /\ respNameFor(k) \notin DOMAIN respTmp
                /\ k \notin DOMAIN reqFile)
    /\ [][\A k \in CallIds : TimedOutUnread(k) => k \notin DOMAIN handled']_vars
    /\ [](\A k \in CallIds :
            (TimedOutRead(k) /\ ~Serving(k)) => respNameFor(k) \in srvWritten)
    /\ [][\A k \in CallIds :
            (TimedOutRead(k) /\ respNameFor(k) \in DOMAIN respFile
                             /\ respNameFor(k) \notin DOMAIN respFile')
                => isRunning' # isRunning]_vars
    /\ [][\A k, j \in CallIds :
            (TimedOutRead(k) /\ j # k /\ Completes(j))
                => /\ calls[j].got[1].forReq = j
                   /\ j \in DOMAIN handled]_vars

\* both outcomes at once: call 1 timed out after the server had read its
\* request and resp_1 lies orphaned, call 2 timed out with its request
\* unread
C32_Witness ==
    /\ TimedOutRead(1)
    /\ ~Serving(1)
    /\ respNameFor(1) \in DOMAIN respFile
    /\ TimedOutUnread(2)
    /\ isRunning

\* ------------------------------------------------------------------------
\* C33  In every poll iteration the client looks for the response before
\* it checks the deadline: a call whose response file exists when it polls
\* returns that response even if the timeout has already elapsed, and a
\* timeout error is raised only directly after a poll that found no
\* response file.
\* ------------------------------------------------------------------------

\* the response file of call id is there
HasResponse(id) == respIdOf(id) \in DOMAIN respFile

\* the timeout of the polling call id has elapsed
Overdue(id) ==
    /\ id \in DOMAIN calls
    /\ calls[id].pc = "polling"
    /\ deadlinePassed(now - calls[id].startTime, calls[id].timeout)

\* A poll that finds the response file takes it, overdue or not; the call
\* leaves the loop for the timeout only from a poll that found no file and
\* an elapsed deadline; the timeout error follows only such a poll.
C33_ResponseBeforeDeadline ==
    [][\A id \in CallIds :
          /\ (id \in DOMAIN calls /\ calls[id].pc = "polling" /\ calls'[id] # calls[id])
                => IF HasResponse(id)
                   THEN /\ calls'[id].pc = "read"
                        /\ calls'[id].got = Some(respFile[respIdOf(id)])
                   ELSE /\ calls'[id].pc = "expired"
                        /\ Overdue(id)
          /\ (id \in DOMAIN calls /\ calls[id].pc # "timedout" /\ calls'[id].pc = "timedout")
                => calls[id].pc = "expired"]_vars

\* call 1 is polling, its timeout has elapsed, and the server has just put
\* resp_1 in place
C33_Witness ==
    /\ Overdue(1)
    /\ HasResponse(1)
    /\ respNameFor(1) \in srvWritten

\* ------------------------------------------------------------------------
\* C34  Each request file is dispatched at most once: over any interleaving
\* of ticks and client steps, the handler for a given request id of one
\* channel runs at most one time.
\* ------------------------------------------------------------------------

\* no request id has had its handler called twice
C34_DispatchedAtMostOnce ==
    \A id \in DOMAIN handled : handled[id] <= 1

\* the handler of request 1 has run and its file is removed; a later tick
\* has found request 2 alone and is about to read it
C34_Witness ==
    /\ 1 \in DOMAIN handled
    /\ handled[1] = 1
    /\ 1 \notin DOMAIN reqFile
    /\ srv.pc = "loop"
    /\ srv.processed = 0
    /\ srv.queue = << 2 >>

\* ------------------------------------------------------------------------
\* C35  For any operation with a non-empty method name that is not on the
\* batch denylist, the outcome recorded in its batch entry (success with
\* the handler's result, or the error code and message) equals the outcome
\* the server gives when the same method and parameters are sent as a
\* direct request.
\* ------------------------------------------------------------------------

\* the response server.poll writes for the operation sent as a request of
\* its own
DirectResponse(op, registry) ==
    pollResponse(dispatchRequest(Some(1), op.method[1],
                                 IF op.params # Nil THEN op.params[1] ELSE LuaTable(<< >>),
                                 registry, op.outcome))

\* the entry and the response tell the same outcome
SameOutcome(entry, response) ==
    IF "error" \in DOMAIN response
    THEN /\ ~entry.success
         /\ entry.error = Some(response.error)
    ELSE /\ entry.success
         /\ entry.result = (IF "result" \in DOMAIN response
                            THEN Some(response.result) ELSE Nil)

\* the operation names a method the batch may run
Batchable(op) ==
    /\ op.isTable
    /\ op.method # Nil
    /\ op.method[1] # ""
    /\ op.method[1] \notin disallowedInBatch

\* the entry of an operation that was not run because the batch had stopped
Skipped(entry) ==
    /\ ~entry.success
    /\ entry.error[1].code = SKIPPED

\* every entry of a batchable operation that was not skipped tells the
\* outcome of the direct request
C35_BatchMatchesDirect ==
    \A i \in 1..Len(batch.acc.results) :
        (Batchable(batch.operations[i]) /\ ~Skipped(batch.acc.results[i]))
            => SameOutcome(batch.acc.results[i],
                           DirectResponse(batch.operations[i], batch.registry))

\* ------------------------------------------------------------------------
\* C36  Every name on the allow-list has a parameter schema and, after
\* module loading, a registered handler, so the "Unknown method" validation
\* outcome and the "No handler registered" outcome are unreachable for an
\* allow-listed method.
\* ------------------------------------------------------------------------

\* the poll has computed the response to a request for an allow-listed
\* method
AnswersAllowed ==
    /\ srv.pc \in {"writing", "written"}
    /\ "method" \in DOMAIN srv.content[1].body
    /\ srv.content[1].body.method \in allowedMethods

\* the head of the error message in the response being written, "" when it
\* is no error
AnswerError ==
    LET body == respTmp[respNameFor(srv.cur)].body
    IN  IF "error" \in DOMAIN body THEN body.error.message[1] ELSE ""

\* C36 as stated: a schema and a handler for every allowed name, and
\* neither outcome for an allowed method
C36_AllowedAlwaysServed ==
    /\ allowedMethods \subseteq DOMAIN paramSchemas
    /\ isLoaded => allowedMethods \subseteq handlers
    /\ AnswersAllowed =>
          AnswerError \notin {"Unknown method", "No handler registered for"}

\* the methods of the tool modules named
MethodsOf(names) ==
    UNION { toolModules[i].methods :
              i \in {j \in 1..Len(toolModules) : toolModules[j].name \in names} }

\* Every allowed name has a schema, and "Unknown method" is no outcome for
\* an allowed method.  After module loading the registry holds the allowed
\* names but those of the tool modules that did not load, and "No handler
\* registered" is the outcome for exactly those.
C36_AllowedServedWhenLoaded ==
    /\ allowedMethods \subseteq DOMAIN paramSchemas
    /\ isLoaded =>
          \E failed \in LoadFailures : handlers = allowedMethods \ MethodsOf(failed)
    /\ AnswersAllowed =>
          /\ AnswerError # "Unknown method"
          /\ AnswerError = "No handler registered for"
                => srv.content[1].body.method \notin handlers

\* a valid request for an allowed method is answered "No handler
\* registered": its module did not load
C36_Witness ==
    /\ AnswersAllowed
    /\ AnswerError = "No handler registered for"
    /\ srv.content[1].body.method = "mesh.getPoints"
    /\ handlers = allowedMethods \ MethodsOf({"moho_mcp.tools.mesh"})

\* ------------------------------------------------------------------------
\* C38  summary.stoppedEarly is true exactly when stopOnError is true and
\* at least one operation failed, including when the failing operation is
\* the last one and nothing was skipped; with stopOnError = true at most
\* one operation is counted as failed.
\* ------------------------------------------------------------------------

\* for the table a batch has returned
C38_StoppedEarlyExact ==
    batch.pc = "returned" =>
        LET summary == batchResult(batch).summary
            stopOnError == stopOnErrorOf(batch.stopOnError)
        IN  /\ summary.stoppedEarly = (stopOnError /\ summary.failed >= 1)
            /\ stopOnError => summary.failed <= 1

\* stopOnError is set, the first operation succeeded and the second, the
\* last, failed: nothing was skipped and stoppedEarly is true
C38_Witness ==
    /\ batch.pc = "returned"
    /\ batch.stopOnError = Some(TRUE)
    /\ Len(batch.operations) = 2
    /\ batch.acc.results[1].success
    /\ ~batch.acc.results[2].success
    /\ ~Skipped(batch.acc.results[2])
    /\ batchResult(batch).summary.stoppedEarly
    /\ batchResult(batch).summary.failed = 1

\* ------------------------------------------------------------------------
\* C40  After any sequence of Start/Stop menu invocations pollActive is
\* true exactly when the server is running, a failed start leaves both
\* false, and the DrawMe polling hooks are installed at most once, so a
\* repaint triggers at most one poll per wrapped callback however many
\* times the server was restarted.
\* ------------------------------------------------------------------------

\* the polls one repaint makes through a wrapped DrawMe: one per wrapper
\* while polling is active
PollsPerRepaint == IF pollActive THEN hooks ELSE 0

\* a menu invocation whose start failed: the server stays stopped
FailedStart ==
    /\ srv.pc = "idle"
    /\ ~isRunning
    /\ isLoaded'
    /\ ~isRunning'
    /\ UNCHANGED << clientVars, now >>

C40_PollActiveIffRunning ==
    /\ [](pollActive = isRunning)
    /\ [](hooks <= 1 /\ PollsPerRepaint <= 1)
    /\ [](isRunning => hooks = 1)
    /\ [][FailedStart => (~pollActive' /\ hooks' = hooks /\ statusFile' = statusFile)]_vars

\* the server is running with one wrapper installed after a restart: the
\* response it wrote to call 1 before was swept while the call still waits
C40_Witness ==
    /\ isRunning
    /\ pollActive
    /\ hooks = 1
    /\ respNameFor(1) \in srvWritten
    /\ respNameFor(1) \notin DOMAIN respFile
    /\ 1 \in DOMAIN calls
    /\ calls[1].pc = "polling"

\* ------------------------------------------------------------------------
\* C37  A batch request counts as one request against the per-tick cap and
\* its operations run contiguously in input order inside one tick: no other
\* request's handler runs between two operations of the same batch.
\* ------------------------------------------------------------------------

\* batch.execute is running inside the poll's iteration
InBatch == srv.pc = "handler"

\* While batch.execute runs, the poll stays in the iteration of the batch
\* request and no handler is called for any request; the operations'
\* handlers are called one index after the other.  The iteration that ends
\* counts one towards the cap, a batch like any other request: the loop
\* goes on exactly when requests are left and fewer than PerTickCap
\* iterations were made.
C37_BatchIsOneRequest ==
    /\ [][InBatch =>
            /\ handled' = handled
            /\ srv'.pc \in {"handler", "writing"}
            /\ srv'.cur = srv.cur
            /\ srv'.queue = srv.queue
            /\ srv'.processed = srv.processed
            /\ batch'.acc.invoked # batch.acc.invoked =>
                  /\ batch'.acc.invoked = batch.acc.invoked \cup {batch.i}
                  /\ batch'.i = batch.i + 1
                  /\ \A j \in batch.acc.invoked : j < batch.i]_vars
    /\ [][(srv.pc = "remove" /\ srv'.pc # "remove") =>
            IF Tail(srv.queue) # << >> /\ srv.processed + 1 < PerTickCap
            THEN /\ srv'.pc = "loop"
                 /\ srv'.processed = srv.processed + 1
                 /\ srv'.queue = Tail(srv.queue)
            ELSE srv'.pc = "idle"]_vars

\* one tick: the batch request 1 ran both its operations and was the first
\* of the tick; the poll is now in the tick's second iteration, for
\* request 2, with request 3 left for the next tick
C37_Witness ==
    /\ srv.pc = "writing"
    /\ srv.cur = 2
    /\ srv.processed = 1
    /\ srv.queue = << 2, 3 >>
    /\ 1 \in DOMAIN handled
    /\ respNameFor(1) \in DOMAIN respFile
    /\ ~BatchIteration
    /\ batch.pc = "returned"
    /\ batch.acc.invoked = {1, 2}

\* ------------------------------------------------------------------------
\* C39  Every sendRequest call on a connected channel terminates: it ends
\* as Completed (response read), as TimedOut, or with a propagated read or
\* protocol error, and never polls forever, whatever the server does or
\* fails to do.
\* ------------------------------------------------------------------------

\* call id has returned or thrown
Ended(id) ==
    /\ id \in DOMAIN calls
    /\ calls[id].pc \in {"completed", "timedout"}
    /\ id \in DOMAIN returned

\* every call that was made ends
C39_CallsTerminate ==
    \A id \in 1..LiveCalls : (id \in DOMAIN calls) ~> Ended(id)

\* call 1 has ended with the timeout error while the server never ran, and
\* call 2 with the response of a server started after that
C39_Witness ==
    /\ Ended(1)
    /\ returned[1].kind = "timeout"
    /\ 1 \notin DOMAIN handled
    /\ Ended(2)
    /\ returned[2].kind # "timeout"

====
